---- MODULE Spec2Model ----
(***************************************************************************)
(* SecureWipe verification portal (portal/app/main.py).                    *)
(*                                                                         *)
(* A Python str and a Python bytes object are sequences of one-character   *)
(* strings (a str stays inside ASCII, where encode('utf-8') keeps the      *)
(* characters).  A value produced by json.loads is a record [t, v]:        *)
(*   none, bool, int, float ("nan"), str (characters), list (values),      *)
(*   dict (a sequence of <<key, value>> pairs in insertion order).         *)
(* SHA-256 and Ed25519 are library functions of fixed output width; they   *)
(* are modelled by a 24-bit polynomial digest, so that digests and         *)
(* signatures are computed from the bytes and not assumed.                 *)
(***************************************************************************)
EXTENDS Integers, Sequences, FiniteSets, TLC

\* ------------------------------------------------------------ characters

\* ASCII 32..95 and 97..126 in code order (the grave accent, 96, is left out)
PrintableLow ==
  << " ", "!", "\"", "#", "$", "%", "&", "'", "(", ")", "*", "+", ",", "-", ".", "/",
     "0", "1", "2", "3", "4", "5", "6", "7", "8", "9", ":", ";", "<", "=", ">", "?",
     "@", "A", "B", "C", "D", "E", "F", "G", "H", "I", "J", "K", "L", "M", "N", "O",
     "P", "Q", "R", "S", "T", "U", "V", "W", "X", "Y", "Z", "[", "\\", "]", "^", "_" >>
PrintableHigh ==
  << "a", "b", "c", "d", "e", "f", "g", "h", "i", "j", "k", "l", "m", "n", "o",
     "p", "q", "r", "s", "t", "u", "v", "w", "x", "y", "z", "{", "|", "}", "~" >>

Chars ==
  {PrintableLow[i] : i \in 1..Len(PrintableLow)}
    \cup {PrintableHigh[i] : i \in 1..Len(PrintableHigh)} \cup {"\n", "\t"}

\* the byte 0xFF, which occurs in no UTF-8 encoding; it stands in a bytes
\* object only, never in a str
InvalidByte == "0xFF"

\* ord(c): the code point of a character, the value of a byte
Ord ==
  [c \in Chars \cup {InvalidByte} |->
     IF c = InvalidByte THEN 255
     ELSE IF c = "\n" THEN 10
     ELSE IF c = "\t" THEN 9
     ELSE IF \E i \in 1..Len(PrintableLow) : PrintableLow[i] = c
     THEN 31 + (CHOOSE i \in 1..Len(PrintableLow) : PrintableLow[i] = c)
     ELSE 96 + (CHOOSE i \in 1..Len(PrintableHigh) : PrintableHigh[i] = c)]

\* a < b for two str objects: code point order, a proper prefix first
RECURSIVE StrLess(_, _)
StrLess(a, b) ==
  IF b = <<>> THEN FALSE
  ELSE IF a = <<>> THEN TRUE
  ELSE IF Head(a) = Head(b) THEN StrLess(Tail(a), Tail(b))
  ELSE Ord[Head(a)] < Ord[Head(b)]

UpperCase == <<"A", "B", "C", "D", "E", "F", "G", "H", "I", "J", "K", "L", "M",
               "N", "O", "P", "Q", "R", "S", "T", "U", "V", "W", "X", "Y", "Z">>
LowerCase == <<"a", "b", "c", "d", "e", "f", "g", "h", "i", "j", "k", "l", "m",
               "n", "o", "p", "q", "r", "s", "t", "u", "v", "w", "x", "y", "z">>

\* str.lower()
StrLower(s) ==
  [i \in 1..Len(s) |->
     IF \E j \in 1..Len(UpperCase) : UpperCase[j] = s[i]
     THEN LowerCase[CHOOSE j \in 1..Len(UpperCase) : UpperCase[j] = s[i]]
     ELSE s[i]]

Digits == <<"0", "1", "2", "3", "4", "5", "6", "7", "8", "9">>
HexDigits == Digits \o <<"a", "b", "c", "d", "e", "f">>

\* ------------------------------------------------------- Python values

PyNone == [t |-> "none", v |-> 0]
PyBool(b) == [t |-> "bool", v |-> b]
PyInt(n) == [t |-> "int", v |-> n]
PyNaN == [t |-> "float", v |-> "nan"]
PyStr(s) == [t |-> "str", v |-> s]
PyList(xs) == [t |-> "list", v |-> xs]
PyDict(kv) == [t |-> "dict", v |-> kv]

IsDict(x) == x.t = "dict"
IsStr(x) == x.t = "str"

\* bool(x): Python truthiness of a value
Truthy(x) ==
  CASE x.t = "none" -> FALSE
    [] x.t = "bool" -> x.v
    [] x.t = "int" -> x.v # 0
    [] x.t = "float" -> TRUE
    [] OTHER -> Len(x.v) > 0

\* key in d
HasKey(d, k) == \E i \in 1..Len(d.v) : d.v[i][1] = k

\* d.get(k, default) for a dict d
DictGet(d, k, default) ==
  IF HasKey(d, k)
  THEN d.v[CHOOSE i \in 1..Len(d.v) : d.v[i][1] = k][2]
  ELSE default

\* del d[k] on a copy of d (the other members keep their order)
DictDel(d, k) ==
  PyDict(SelectSeq(d.v, LAMBDA m : m[1] # k))

\* d[k] = x on a copy of d: an existing key keeps its place, a new key goes last
DictSet(d, k, x) ==
  IF HasKey(d, k)
  THEN PyDict([i \in 1..Len(d.v) |-> IF d.v[i][1] = k THEN <<k, x>> ELSE d.v[i]])
  ELSE PyDict(Append(d.v, <<k, x>>))

\* ------------------------------------------------------------ json.dumps

\* repr of a non-negative int
RECURSIVE NatRepr(_)
NatRepr(n) ==
  IF n < 10 THEN <<Digits[n + 1]>>
  ELSE NatRepr(n \div 10) \o <<Digits[(n % 10) + 1]>>

IntRepr(n) == IF n < 0 THEN <<"-">> \o NatRepr(-n) ELSE NatRepr(n)

\* json.encoder.py_encode_basestring: the escapes of ensure_ascii=False
EscapeChar(c) ==
  CASE c = "\"" -> <<"\\", "\"">>
    [] c = "\\" -> <<"\\", "\\">>
    [] c = "\n" -> <<"\\", "n">>
    [] c = "\t" -> <<"\\", "t">>
    [] OTHER -> <<c>>

RECURSIVE EscapeEach(_)
EscapeEach(s) ==
  IF s = <<>> THEN <<>> ELSE EscapeChar(Head(s)) \o EscapeEach(Tail(s))

\* a string with nothing to escape is written as it is
EscapeStr(s) ==
  IF \A i \in 1..Len(s) : s[i] \notin {"\"", "\\", "\n", "\t"} THEN s
  ELSE EscapeEach(s)

EncodeStr(s) == <<"\"">> \o EscapeStr(s) \o <<"\"">>

\* json.dumps(x, separators=(item_sep, key_sep), ensure_ascii=False): members
\* and elements in the order the object holds them; NaN is written as NaN
\* (allow_nan is left at its default)
RECURSIVE Dumps(_, _, _), DumpsItems(_, _, _, _), DumpsMembers(_, _, _, _)
Dumps(x, item_sep, key_sep) ==
  CASE x.t = "none" -> <<"n", "u", "l", "l">>
    [] x.t = "bool" ->
         IF x.v THEN <<"t", "r", "u", "e">> ELSE <<"f", "a", "l", "s", "e">>
    [] x.t = "int" -> IntRepr(x.v)
    [] x.t = "float" -> <<"N", "a", "N">>
    [] x.t = "str" -> EncodeStr(x.v)
    [] x.t = "list" -> <<"[">> \o DumpsItems(x.v, 1, item_sep, key_sep) \o <<"]">>
    [] x.t = "dict" -> <<"{">> \o DumpsMembers(x.v, 1, item_sep, key_sep) \o <<"}">>

DumpsItems(xs, i, item_sep, key_sep) ==
  IF i > Len(xs) THEN <<>>
  ELSE (IF i > 1 THEN item_sep ELSE <<>>)
         \o Dumps(xs[i], item_sep, key_sep)
         \o DumpsItems(xs, i + 1, item_sep, key_sep)

DumpsMembers(kv, i, item_sep, key_sep) ==
  IF i > Len(kv) THEN <<>>
  ELSE (IF i > 1 THEN item_sep ELSE <<>>)
         \o EncodeStr(kv[i][1]) \o key_sep
         \o Dumps(kv[i][2], item_sep, key_sep)
         \o DumpsMembers(kv, i + 1, item_sep, key_sep)

\* json.dumps(x, separators=(',', ':'))
CompactDumps(x) == Dumps(x, <<",">>, <<":">>)

\* --------------------------------------------------------- canonicalize_json

\* sorted(val.items()): the members in ascending key order (insertion sort;
\* the keys of a dict are distinct, so the values are never compared)
RECURSIVE InsertMember(_, _)
InsertMember(m, sorted) ==
  IF sorted = <<>> THEN <<m>>
  ELSE IF StrLess(m[1], Head(sorted)[1]) THEN <<m>> \o sorted
  ELSE <<Head(sorted)>> \o InsertMember(m, Tail(sorted))

\* SortedItems as it would be if the members were left in the order held
UnsortedItems(kv) == kv

RECURSIVE SortedItems(_)
SortedItems(kv) ==
  IF kv = <<>> THEN <<>> ELSE InsertMember(Head(kv), SortedItems(Tail(kv)))

\* canonicalize_value as it would be if only the outermost object were sorted
CanonicalizeOutermost(val) ==
  IF val.t = "dict" THEN PyDict(SortedItems(val.v)) ELSE val

\* lines 117-126: the inner function of canonicalize_json
RECURSIVE canonicalize_value(_)
canonicalize_value(val) ==
  CASE val.t = "dict" ->
         LET items == SortedItems(val.v)
         IN  PyDict([i \in 1..Len(items) |->
                       <<items[i][1], canonicalize_value(items[i][2])>>])
    [] val.t = "list" ->
         PyList([i \in 1..Len(val.v) |-> canonicalize_value(val.v[i])])
    [] OTHER -> val

\* canonicalize_json as it would be with json.dumps' default separators
CanonicalizeSpaced(value) ==
  Dumps(canonicalize_value(value), <<",", " ">>, <<":", " ">>)

\* lines 128-133: canonicalize, serialize, encode
canonicalize_json(value) ==
  Dumps(canonicalize_value(value), <<",">>, <<":">>)

\* ------------------------------------------------- hashlib, base64, nacl

\* The digest that stands for SHA-256 and for the Ed25519 signature value: a
\* position-weighted sum of the bytes, seeded and kept to 24 bits (three
\* bytes). The sum is taken by halves, so the evaluation depth is
\* logarithmic in the length.
ByteWeight(i) == ((i * 7919) % 4093) * 2 + 1

RECURSIVE WeightedSum(_, _, _)
WeightedSum(bytes, lo, hi) ==
  IF lo > hi THEN 0
  ELSE IF lo = hi THEN Ord[bytes[lo]] * ByteWeight(lo)
  ELSE LET mid == (lo + hi) \div 2
       IN  (WeightedSum(bytes, lo, mid) + WeightedSum(bytes, mid + 1, hi)) % (2^24)

PolyDigest(h, bytes) ==
  (h * 31 + Len(bytes) * 8191 + WeightedSum(bytes, 1, Len(bytes))) % (2^24)

\* the n low hex digits of h, most significant first
RECURSIVE HexOf(_, _)
HexOf(h, n) ==
  IF n = 0 THEN <<>> ELSE HexOf(h \div 16, n - 1) \o <<HexDigits[(h % 16) + 1]>>

\* hashlib.sha256(cert_json_bytes).hexdigest(): lowercase hex
compute_certificate_hash(cert_json_bytes) ==
  HexOf(PolyDigest(5381, cert_json_bytes), 6)

\* the length of a signature in bytes (64 in Ed25519, three in the model)
SignatureLen == 3

\* the raw key loaded by load_public_key (one number stands for the 32 bytes)
PUBLIC_KEY_BYTES == 40503

\* the signature value the scheme accepts for a message under a key
Ed25519Sign(key, message) ==
  LET h == PolyDigest(key, message)
  IN  <<h \div 65536, (h \div 256) % 256, h % 256>>

\* VerifyKey(key).verify(message, signature): "ok", or the exception raised
VerifyKey_verify(key, message, signature) ==
  IF Len(signature) # SignatureLen THEN "ValueError"
  ELSE IF signature = Ed25519Sign(key, message) THEN "ok"
  ELSE "BadSignatureError"

B64Alphabet ==
  UpperCase \o LowerCase \o Digits \o <<"+", "/">>

B64Value(c) == (CHOOSE i \in 1..Len(B64Alphabet) : B64Alphabet[i] = c) - 1

\* binascii.a2b_base64 in its default, non-strict mode: characters outside
\* the alphabet are skipped, a completed pad sequence ends the input, and a
\* group left incomplete at the end is an error
RECURSIVE A2bBase64(_, _, _, _, _, _)
A2bBase64(s, i, quad_pos, leftchar, pads, out) ==
  IF i > Len(s)
  THEN [ok |-> quad_pos = 0, bytes |-> out]
  ELSE
    LET c == s[i]
    IN  IF c = "="
        THEN IF quad_pos >= 2 /\ quad_pos + pads + 1 >= 4
             THEN [ok |-> TRUE, bytes |-> out]
             ELSE A2bBase64(s, i + 1, quad_pos, leftchar,
                            IF quad_pos >= 2 THEN pads + 1 ELSE pads, out)
        ELSE IF ~ \E j \in 1..Len(B64Alphabet) : B64Alphabet[j] = c
        THEN A2bBase64(s, i + 1, quad_pos, leftchar, pads, out)
        ELSE
          LET b == B64Value(c)
          IN  CASE quad_pos = 0 -> A2bBase64(s, i + 1, 1, b, 0, out)
                [] quad_pos = 1 ->
                     A2bBase64(s, i + 1, 2, b % 16, 0,
                               Append(out, leftchar * 4 + b \div 16))
                [] quad_pos = 2 ->
                     A2bBase64(s, i + 1, 3, b % 4, 0,
                               Append(out, leftchar * 16 + b \div 4))
                [] quad_pos = 3 ->
                     A2bBase64(s, i + 1, 0, 0, 0,
                               Append(out, leftchar * 64 + b))

\* base64.b64decode(x): a str is decoded, anything else is a TypeError
b64decode(x) ==
  IF x.t = "str" THEN A2bBase64(x.v, 1, 0, 0, 0, <<>>)
  ELSE [ok |-> FALSE, bytes |-> <<>>]

\* ------------------------------------------------ verify_ed25519_signature

s_signature == <<"s", "i", "g", "n", "a", "t", "u", "r", "e">>
s_alg == <<"a", "l", "g">>
s_pubkey_id == <<"p", "u", "b", "k", "e", "y", "_", "i", "d">>
s_sig == <<"s", "i", "g">>
s_Ed25519 == <<"E", "d", "2", "5", "5", "1", "9">>
s_sih_root_v1 == <<"s", "i", "h", "_", "r", "o", "o", "t", "_", "v", "1">>

\* The call's outcome: ret is the value returned (PyNone, PyBool), exc the
\* exception that left the function ("" when it returned), steps the library
\* operations attempted, in order.
SigOutcome(ret, exc, steps) == [ret |-> ret, exc |-> exc, steps |-> steps]

\* WithoutSignature as it would be if the member were deleted from the
\* caller's dict itself
WithoutSignatureInPlace(cert_data) ==
  [cert_data |-> DictDel(cert_data, s_signature),
   unsigned_cert |-> DictDel(cert_data, s_signature)]

\* lines 210-212: unsigned_cert = cert_data.copy(), then
\* del unsigned_cert["signature"]; the caller's dict and the copy afterwards
WithoutSignature(cert_data) ==
  [cert_data |-> cert_data,
   unsigned_cert |-> DictDel(cert_data, s_signature)]

\* VerifyPinnedSignature as it would be if the certificate were canonicalized
\* as received, its signature member included
VerifyPinnedSignatureOverWhole(cert_data, signature_obj) ==
  LET sig_b64 == DictGet(signature_obj, s_sig, PyNone)
  IN  IF ~Truthy(sig_b64) THEN SigOutcome(PyBool(FALSE), "", <<>>)
      ELSE
        LET decoded == b64decode(sig_b64)
        IN  IF ~decoded.ok
            THEN SigOutcome(PyBool(FALSE), "", <<"b64decode">>)
            ELSE
              LET canonical_bytes == canonicalize_json(cert_data)
                  verdict == VerifyKey_verify(PUBLIC_KEY_BYTES, canonical_bytes,
                                              decoded.bytes)
              IN  SigOutcome(PyBool(verdict = "ok"), "",
                             <<"b64decode", "canonicalize_json", "verify">>)

\* VerifyPinnedSignature as it would be if a rejected signature were not
\* told from an accepted one (only a signature of the wrong length raises)
VerifyPinnedSignatureUnchecked(cert_data, signature_obj) ==
  LET sig_b64 == DictGet(signature_obj, s_sig, PyNone)
  IN  IF ~Truthy(sig_b64) THEN SigOutcome(PyBool(FALSE), "", <<>>)
      ELSE
        LET decoded == b64decode(sig_b64)
        IN  IF ~decoded.ok
            THEN SigOutcome(PyBool(FALSE), "", <<"b64decode">>)
            ELSE
              LET unsigned_cert == DictDel(cert_data, s_signature)
                  canonical_bytes == canonicalize_json(unsigned_cert)
                  verdict == VerifyKey_verify(PUBLIC_KEY_BYTES, canonical_bytes,
                                              decoded.bytes)
              IN  SigOutcome(PyBool(verdict # "ValueError"), "",
                             <<"b64decode", "canonicalize_json", "verify">>)

\* lines 201-223: the part inside try/except
VerifyPinnedSignature(cert_data, signature_obj) ==
  LET sig_b64 == DictGet(signature_obj, s_sig, PyNone)
  IN  IF ~Truthy(sig_b64) THEN SigOutcome(PyBool(FALSE), "", <<>>)
      ELSE
        LET decoded == b64decode(sig_b64)
        IN  IF ~decoded.ok
            THEN SigOutcome(PyBool(FALSE), "", <<"b64decode">>)
            ELSE
              LET unsigned_cert == WithoutSignature(cert_data).unsigned_cert
                  canonical_bytes == canonicalize_json(unsigned_cert)
                  verdict == VerifyKey_verify(PUBLIC_KEY_BYTES, canonical_bytes,
                                              decoded.bytes)
              IN  SigOutcome(PyBool(verdict = "ok"), "",
                             <<"b64decode", "canonicalize_json", "verify">>)

\* SignatureMissing as it would be if only the member's absence were tested
SignatureAbsent(cert_data) == ~HasKey(cert_data, s_signature)

\* lines 192-194: not signature_obj, for signature_obj = cert_data.get("signature")
SignatureMissing(cert_data) == ~Truthy(DictGet(cert_data, s_signature, PyNone))

\* PinMismatch as it would be if only the algorithm were pinned
PinMismatchOfAlgorithm(signature_obj) ==
  DictGet(signature_obj, s_alg, PyNone) # PyStr(s_Ed25519)

\* lines 197-198: the algorithm or the key is not the pinned one
PinMismatch(signature_obj) ==
  \/ DictGet(signature_obj, s_alg, PyNone) # PyStr(s_Ed25519)
  \/ DictGet(signature_obj, s_pubkey_id, PyNone) # PyStr(s_sih_root_v1)

verify_ed25519_signature(cert_data) ==
  IF ~IsDict(cert_data) THEN SigOutcome(PyNone, "AttributeError", <<>>)
  ELSE IF SignatureMissing(cert_data) THEN SigOutcome(PyNone, "", <<>>)
  ELSE
    LET signature_obj == DictGet(cert_data, s_signature, PyNone)
    IN  IF ~IsDict(signature_obj) THEN SigOutcome(PyNone, "AttributeError", <<>>)
        ELSE IF PinMismatch(signature_obj) THEN SigOutcome(PyBool(FALSE), "", <<>>)
        ELSE VerifyPinnedSignature(cert_data, signature_obj)

\* ------------------------------------------------------- string literals

s_cert_type == <<"c", "e", "r", "t", "_", "t", "y", "p", "e">>
s_backup == <<"b", "a", "c", "k", "u", "p">>
s_wipe == <<"w", "i", "p", "e">>
s_metadata == <<"m", "e", "t", "a", "d", "a", "t", "a">>
s_certificate_json_sha256 == <<"c", "e", "r", "t", "i", "f", "i", "c", "a", "t", "e", "_", "j", "s", "o", "n", "_", "s", "h", "a", "2", "5", "6">>
s_linkage == <<"l", "i", "n", "k", "a", "g", "e">>
s_backup_cert_id == <<"b", "a", "c", "k", "u", "p", "_", "c", "e", "r", "t", "_", "i", "d">>
s_cert_id == <<"c", "e", "r", "t", "_", "i", "d">>
s_device == <<"d", "e", "v", "i", "c", "e">>
s_model == <<"m", "o", "d", "e", "l">>
s_policy == <<"p", "o", "l", "i", "c", "y">>
s_nist_level == <<"n", "i", "s", "t", "_", "l", "e", "v", "e", "l">>
s_method == <<"m", "e", "t", "h", "o", "d">>
s_destination == <<"d", "e", "s", "t", "i", "n", "a", "t", "i", "o", "n">>
s_type == <<"t", "y", "p", "e">>
s_label == <<"l", "a", "b", "e", "l">>
s_unknown == <<"u", "n", "k", "n", "o", "w", "n">>
s_unlabeled == <<"u", "n", "l", "a", "b", "e", "l", "e", "d">>
s_linked_backup_cert == <<"l", "i", "n", "k", "e", "d", "_", "b", "a", "c", "k", "u", "p", "_", "c", "e", "r", "t">>
s_device_model == <<"d", "e", "v", "i", "c", "e", "_", "m", "o", "d", "e", "l">>
s_policy_method_or_destination == <<"p", "o", "l", "i", "c", "y", "_", "m", "e", "t", "h", "o", "d", "_", "o", "r", "_", "d", "e", "s", "t", "i", "n", "a", "t", "i", "o", "n">>
s_object == <<"o", "b", "j", "e", "c", "t">>
s_string == <<"s", "t", "r", "i", "n", "g">>

\* a == b on two Python values: a bool equals the int of the same value,
\* everything else is equal when it is the same value
PyEq(a, b) ==
  IF a.t \in {"bool", "int"} /\ b.t \in {"bool", "int"}
  THEN (IF a.t = "bool" THEN (IF a.v THEN 1 ELSE 0) ELSE a.v)
         = (IF b.t = "bool" THEN (IF b.v THEN 1 ELSE 0) ELSE b.v)
  ELSE a = b

\* ------------------------------------------------------------- jsonschema

\* A schema node: type ("" when unconstrained), const (<<>> or <<value>>),
\* the required keys, and the properties as <<key, node>> pairs.
AnySchema == [type |-> "", const |-> <<>>, required |-> <<>>, properties |-> <<>>]
StringSchema == [AnySchema EXCEPT !.type = "string"]
ConstSchema(s) == [AnySchema EXCEPT !.type = "string", !.const = <<PyStr(s)>>]
ObjectSchema(required, properties) ==
  [AnySchema EXCEPT !.type = "object", !.required = required,
                    !.properties = properties]

SignatureSchema ==
  ObjectSchema(<<s_alg, s_pubkey_id, s_sig>>,
               << <<s_alg, ConstSchema(s_Ed25519)>>,
                  <<s_pubkey_id, ConstSchema(s_sih_root_v1)>>,
                  <<s_sig, StringSchema>> >>)

DeviceSchema == ObjectSchema(<<s_model>>, << <<s_model, StringSchema>> >>)

\* certs/schemas/backup_schema.json, cut down to the members the portal reads
BACKUP_SCHEMA ==
  ObjectSchema(<<s_cert_type, s_cert_id, s_device, s_signature>>,
               << <<s_cert_type, ConstSchema(s_backup)>>,
                  <<s_cert_id, StringSchema>>,
                  <<s_device, DeviceSchema>>,
                  <<s_metadata,
                    ObjectSchema(<<>>, << <<s_certificate_json_sha256, StringSchema>> >>)>>,
                  <<s_signature, SignatureSchema>> >>)

\* certs/schemas/wipe_schema.json, cut down in the same way
WIPE_SCHEMA ==
  ObjectSchema(<<s_cert_type, s_cert_id, s_device, s_signature>>,
               << <<s_cert_type, ConstSchema(s_wipe)>>,
                  <<s_cert_id, StringSchema>>,
                  <<s_device, DeviceSchema>>,
                  <<s_linkage,
                    ObjectSchema(<<>>, << <<s_backup_cert_id, StringSchema>> >>)>>,
                  <<s_signature, SignatureSchema>> >>)

Violation(keyword, path, subject) ==
  [keyword |-> keyword, path |-> path, subject |-> subject]

TypeMatches(instance, type) ==
  CASE type = "" -> TRUE
    [] type = "string" -> instance.t = "str"
    [] type = "object" -> instance.t = "dict"

\* Validator.iter_errors: every violation, keyword by keyword (type, const,
\* required, properties), the properties in the schema's order
RECURSIVE IterErrors(_, _, _), IterProperties(_, _, _, _)
IterErrors(instance, schema, path) ==
  (IF TypeMatches(instance, schema.type) THEN <<>>
   ELSE <<Violation("type", path, IF schema.type = "object" THEN s_object ELSE s_string)>>)
  \o (IF schema.const = <<>> \/ instance = schema.const[1] THEN <<>>
      ELSE <<Violation("const", path, schema.const[1].v)>>)
  \o (IF ~IsDict(instance) THEN <<>>
      ELSE LET missing == SelectSeq(schema.required, LAMBDA k : ~HasKey(instance, k))
           IN  [i \in 1..Len(missing) |-> Violation("required", path, missing[i])])
  \o (IF ~IsDict(instance) THEN <<>>
      ELSE IterProperties(instance, schema.properties, path, 1))

IterProperties(instance, properties, path, i) ==
  IF i > Len(properties) THEN <<>>
  ELSE (IF HasKey(instance, properties[i][1])
        THEN IterErrors(DictGet(instance, properties[i][1], PyNone),
                        properties[i][2], Append(path, properties[i][1]))
        ELSE <<>>)
       \o IterProperties(instance, properties, path, i + 1)

\* jsonschema.exceptions.best_match: the first of the violations nearest to
\* the root of the instance
BestMatch(violations) ==
  LET best == CHOOSE i \in 1..Len(violations) :
                /\ \A j \in 1..Len(violations) :
                     Len(violations[i].path) <= Len(violations[j].path)
                /\ \A j \in 1..(i - 1) :
                     Len(violations[j].path) > Len(violations[i].path)
  IN  violations[best]

\* jsonschema.validate(instance, schema): <<>> when it returns, <<e>> when it
\* raises the ValidationError e
validate(instance, schema) ==
  LET violations == IterErrors(instance, schema, <<>>)
  IN  IF violations = <<>> THEN <<>> ELSE <<BestMatch(violations)>>

\* ------------------------------------------------- validate_chain_linkage

\* CertIdMatches as it would be if any two identifiers were taken to match
CertIdMatchesAny(backup_cert_id, linked_cert_id) ==
  IsStr(backup_cert_id) /\ IsStr(linked_cert_id)

\* line 251, `backup_cert_id == linked_cert_id`
CertIdMatches(backup_cert_id, linked_cert_id) == PyEq(backup_cert_id, linked_cert_id)

\* NoReference as it would be if only a reference that is not there counted
NoReferenceIfNone(backup_cert_id) == backup_cert_id = PyNone

\* line 246, `if not backup_cert_id:`
NoReference(backup_cert_id) == ~Truthy(backup_cert_id)

\* ret is the value returned; exc the exception raised ("" when none)
validate_chain_linkage(wipe_cert, linked_backup_cert) ==
  IF ~Truthy(linked_backup_cert) THEN [ret |-> PyNone, exc |-> ""]
  ELSE
    LET linkage == DictGet(wipe_cert, s_linkage, PyDict(<<>>))
    IN  IF ~IsDict(linkage) THEN [ret |-> PyNone, exc |-> "AttributeError"]
        ELSE
          LET backup_cert_id == DictGet(linkage, s_backup_cert_id, PyNone)
          IN  IF NoReference(backup_cert_id) THEN [ret |-> PyNone, exc |-> ""]
              ELSE IF ~IsDict(linked_backup_cert)
              THEN [ret |-> PyNone, exc |-> "AttributeError"]
              ELSE [ret |-> PyBool(CertIdMatches(backup_cert_id,
                                                 DictGet(linked_backup_cert, s_cert_id, PyNone))),
                    exc |-> ""]

\* --------------------------------------------------- extract_cert_summary

\* an f-string: the interpolated values in order
FString(parts) == [t |-> "fstr", v |-> parts]

\* summary is the dict built (as <<key, value>> pairs); exc the exception
\* raised by a .get on something that is not a dict
extract_cert_summary(cert_data) ==
  LET device == DictGet(cert_data, s_device, PyDict(<<>>))
      cert_type == DictGet(cert_data, s_cert_type, PyNone)
      policy == DictGet(cert_data, s_policy, PyDict(<<>>))
      destination == DictGet(cert_data, s_destination, PyDict(<<>>))
      base == << <<s_cert_id, DictGet(cert_data, s_cert_id, PyStr(s_unknown))>>,
                 <<s_cert_type, DictGet(cert_data, s_cert_type, PyStr(s_unknown))>>,
                 <<s_device_model,
                   IF IsDict(device) THEN DictGet(device, s_model, PyStr(s_unknown))
                   ELSE PyNone>> >>
  IN  IF ~IsDict(device) THEN [summary |-> <<>>, exc |-> "AttributeError"]
      ELSE IF cert_type = PyStr(s_wipe)
      THEN IF ~IsDict(policy) THEN [summary |-> <<>>, exc |-> "AttributeError"]
           ELSE [summary |->
                   Append(base,
                          <<s_policy_method_or_destination,
                            FString(<<DictGet(policy, s_nist_level, PyStr(s_unknown)),
                                      DictGet(policy, s_method, PyStr(s_unknown))>>)>>),
                 exc |-> ""]
      ELSE IF cert_type = PyStr(s_backup)
      THEN IF ~Truthy(destination)
           THEN [summary |-> Append(base, <<s_policy_method_or_destination,
                                            PyStr(s_backup)>>),
                 exc |-> ""]
           ELSE IF ~IsDict(destination)
           THEN [summary |-> <<>>, exc |-> "AttributeError"]
           ELSE [summary |->
                   Append(base,
                          <<s_policy_method_or_destination,
                            FString(<<DictGet(destination, s_type, PyStr(s_unknown)),
                                      DictGet(destination, s_label, PyStr(s_unlabeled))>>)>>),
                 exc |-> ""]
      ELSE [summary |-> base, exc |-> ""]

\* --------------------------------------------------- validate_certificate

\* one entry of the errors list: the message's fixed text and what the
\* f-string interpolates into it
Err(kind, text) == [kind |-> kind, text |-> text]

\* InitialResult as it would be if the digest were taken over no bytes
InitialResultOfNoBytes(cert_json_bytes) ==
  [schema_valid |-> FALSE,
   signature_valid |-> PyNone,
   hash_valid |-> PyNone,
   chain_valid |-> PyNone,
   errors |-> <<>>,
   cert_summary |-> <<>>,
   computed |-> [certificate_json_sha256 |-> compute_certificate_hash(<<>>),
                 linked_backup_sha256 |-> PyNone],
   steps |-> <<>>,
   exc |-> ""]

\* The VerificationResult under construction.  steps records the checks the
\* call has entered, in order (it is not part of the response); exc is the
\* exception on its way to the outer except clause ("" when none).
InitialResult(cert_json_bytes) ==
  [schema_valid |-> FALSE,
   signature_valid |-> PyNone,
   hash_valid |-> PyNone,
   chain_valid |-> PyNone,
   errors |-> <<>>,
   cert_summary |-> <<>>,
   computed |-> [certificate_json_sha256 |-> compute_certificate_hash(cert_json_bytes),
                 linked_backup_sha256 |-> PyNone],
   steps |-> <<>>,
   exc |-> ""]

\* SchemaCheck as it would be if every violation found by iter_errors were
\* reported, not only the one validate raises
SchemaCheckReportingAll(r, cert_data, schema) ==
  LET all == IterErrors(cert_data, schema, <<>>)
      r1 == [r EXCEPT !.steps = Append(@, "validate")]
  IN  IF all = <<>> THEN [r1 EXCEPT !.schema_valid = TRUE]
      ELSE [r1 EXCEPT !.errors =
              @ \o [i \in 1..Len(all) |->
                      Err("Schema validation error", <<all[i].keyword, all[i].subject>>)]]

\* lines 309-316: validate against the selected schema
SchemaCheck(r, cert_data, schema) ==
  LET e == validate(cert_data, schema)
      r1 == [r EXCEPT !.steps = Append(@, "validate")]
  IN  IF e = <<>> THEN [r1 EXCEPT !.schema_valid = TRUE]
      ELSE [r1 EXCEPT !.errors =
              @ \o <<Err("Schema validation error", <<e[1].keyword, e[1].subject>>)>>
                \o (IF e[1].path # <<>> THEN <<Err("At path", e[1].path)>> ELSE <<>>)]

\* SignatureErrors as it would be if line 321 tested `not signature_valid`
SignatureErrorsUnlessTrue(o) ==
  IF o.exc # "" THEN <<Err("Signature verification error", <<o.exc>>)>>
  ELSE IF o.ret # PyBool(TRUE) THEN <<Err("Invalid Ed25519 signature", <<>>)>>
  ELSE <<>>

\* SignatureErrors as it would be if a rejected signature left no message
SignatureErrorsSilent(o) ==
  IF o.exc # "" THEN <<Err("Signature verification error", <<o.exc>>)>>
  ELSE <<>>

\* lines 321-325: what the signature check appends to errors, given the
\* outcome o of verify_ed25519_signature
SignatureErrors(o) ==
  IF o.exc # "" THEN <<Err("Signature verification error", <<o.exc>>)>>
  ELSE IF o.ret = PyBool(FALSE) THEN <<Err("Invalid Ed25519 signature", <<>>)>>
  ELSE <<>>

\* SignatureCheck as it would be if a schema failure ended the validation
SignatureCheckUnlessSchemaFailed(r, cert_data) ==
  IF ~r.schema_valid THEN r
  ELSE
    LET o == verify_ed25519_signature(cert_data)
        r1 == [r EXCEPT !.steps = Append(@, "verify_ed25519_signature") \o o.steps]
    IN  [r1 EXCEPT !.signature_valid = IF o.exc # "" THEN PyBool(FALSE) ELSE o.ret,
                   !.errors = @ \o SignatureErrors(o)]

\* SignatureCheck as it would be if its message were put at the head of the
\* errors list
SignatureCheckPrepending(r, cert_data) ==
  LET o == verify_ed25519_signature(cert_data)
      r1 == [r EXCEPT !.steps = Append(@, "verify_ed25519_signature") \o o.steps]
  IN  [r1 EXCEPT !.signature_valid = IF o.exc # "" THEN PyBool(FALSE) ELSE o.ret,
                 !.errors = SignatureErrors(o) \o @]

\* lines 318-325: verify the signature
SignatureCheck(r, cert_data) ==
  LET o == verify_ed25519_signature(cert_data)
      r1 == [r EXCEPT !.steps = Append(@, "verify_ed25519_signature") \o o.steps]
  IN  [r1 EXCEPT !.signature_valid = IF o.exc # "" THEN PyBool(FALSE) ELSE o.ret,
                 !.errors = @ \o SignatureErrors(o)]

\* HashApplies as it would be if the declared hash of any certificate were compared
HashAppliesToAll(cert_type) == TRUE

\* line 328, `if cert_type == "backup":`
HashApplies(cert_type) == cert_type = PyStr(s_backup)

\* ExpectedHashGiven as it would be if the presence of the member decided
ExpectedHashPresent(metadata) == HasKey(metadata, s_certificate_json_sha256)

\* line 331, `if expected_hash:`: the declared hash is compared when it is truthy
ExpectedHashGiven(metadata) ==
  Truthy(DictGet(metadata, s_certificate_json_sha256, PyNone))

\* HashCheck as it would be if the digest were taken over the certificate
\* serialized again instead of the bytes received
HashCheckOverReserialized(r0, cert_data, cert_type) ==
  IF ~HashApplies(cert_type) THEN r0
  ELSE
    LET r == [r0 EXCEPT !.steps = Append(@, "hash_check")]
        metadata == DictGet(cert_data, s_metadata, PyDict(<<>>))
    IN  IF ~IsDict(metadata) THEN [r EXCEPT !.exc = "AttributeError"]
        ELSE
          LET expected_hash == DictGet(metadata, s_certificate_json_sha256, PyNone)
              computed_hash == compute_certificate_hash(CompactDumps(cert_data))
          IN  IF ~ExpectedHashGiven(metadata) THEN r
              ELSE IF ~IsStr(expected_hash) THEN [r EXCEPT !.exc = "AttributeError"]
              ELSE
                LET hash_valid == StrLower(expected_hash.v) = StrLower(computed_hash)
                    r1 == [r EXCEPT !.steps = Append(@, "hash_compare"),
                                    !.hash_valid = PyBool(hash_valid)]
                IN  IF hash_valid THEN r1
                    ELSE [r1 EXCEPT !.errors =
                            Append(@, Err("Certificate hash mismatch",
                                          <<expected_hash.v, computed_hash>>))]

\* lines 327-335: compare the declared hash of a backup certificate
HashCheck(r0, cert_data, cert_type) ==
  IF ~HashApplies(cert_type) THEN r0
  ELSE
    LET r == [r0 EXCEPT !.steps = Append(@, "hash_check")]
        metadata == DictGet(cert_data, s_metadata, PyDict(<<>>))
    IN  IF ~IsDict(metadata) THEN [r EXCEPT !.exc = "AttributeError"]
        ELSE
          LET expected_hash == DictGet(metadata, s_certificate_json_sha256, PyNone)
              computed_hash == r.computed.certificate_json_sha256
          IN  IF ~ExpectedHashGiven(metadata) THEN r
              ELSE IF ~IsStr(expected_hash) THEN [r EXCEPT !.exc = "AttributeError"]
              ELSE
                LET hash_valid == StrLower(expected_hash.v) = StrLower(computed_hash)
                    r1 == [r EXCEPT !.steps = Append(@, "hash_compare"),
                                    !.hash_valid = PyBool(hash_valid)]
                IN  IF hash_valid THEN r1
                    ELSE [r1 EXCEPT !.errors =
                            Append(@, Err("Certificate hash mismatch",
                                          <<expected_hash.v, computed_hash>>))]

\* ValidateLinked as it would be if the linked certificate were not validated
ValidateLinkedSkipped(linked_backup_cert) == <<>>

\* line 341: the linked certificate against the backup schema
ValidateLinked(linked_backup_cert) == validate(linked_backup_cert, BACKUP_SCHEMA)

\* LinkedBackupHash as it would be with json.dumps' default separators
LinkedBackupHashSpaced(linked_backup_cert) ==
  PyStr(compute_certificate_hash(Dumps(linked_backup_cert, <<",", " ">>, <<":", " ">>)))

\* lines 344-345: the digest of the linked certificate serialized compactly
LinkedBackupHash(linked_backup_cert) ==
  PyStr(compute_certificate_hash(CompactDumps(linked_backup_cert)))

\* lines 337-357: chain linkage of a wipe certificate
ChainCheck(r, cert_data, cert_type, linked_backup_cert) ==
  IF r.exc # "" \/ cert_type # PyStr(s_wipe) \/ ~Truthy(linked_backup_cert) THEN r
  ELSE
    LET e == ValidateLinked(linked_backup_cert)
        r1 == [r EXCEPT !.steps = Append(@, "validate_linked")]
    IN  IF e # <<>>
        THEN [r1 EXCEPT !.chain_valid = PyBool(FALSE),
                        !.errors = Append(@, Err("Linked backup certificate schema error",
                                                 <<e[1].keyword, e[1].subject>>))]
        ELSE
          LET o == validate_chain_linkage(cert_data, linked_backup_cert)
              r2 == [r1 EXCEPT !.computed.linked_backup_sha256 =
                                  LinkedBackupHash(linked_backup_cert),
                               !.steps = Append(@, "validate_chain_linkage")]
          IN  IF o.exc # ""
              THEN [r2 EXCEPT !.chain_valid = PyBool(FALSE),
                              !.errors = Append(@, Err("Chain validation error", <<o.exc>>))]
              ELSE IF o.ret = PyBool(FALSE)
              THEN [r2 EXCEPT !.chain_valid = o.ret,
                              !.errors = Append(@, Err("Chain linkage validation failed: backup_cert_id mismatch", <<>>))]
              ELSE [r2 EXCEPT !.chain_valid = o.ret]

\* lines 359-360: the summary
SummaryStep(r, cert_data) ==
  IF r.exc # "" THEN r
  ELSE
    LET o == extract_cert_summary(cert_data)
        r1 == [r EXCEPT !.steps = Append(@, "extract_cert_summary")]
    IN  IF o.exc # "" THEN [r1 EXCEPT !.exc = o.exc]
        ELSE [r1 EXCEPT !.cert_summary = o.summary]

\* lines 362-363: the outer except clause
OuterExcept(r) ==
  IF r.exc = "" THEN r
  ELSE [r EXCEPT !.errors = Append(@, Err("Unexpected error during validation", <<r.exc>>)),
                 !.exc = ""]

\* MissingCertType as it would be without the test at line 278: the value
\* None goes on to the schema selection and names no schema
MissingCertTypeAsUnknown(r0) ==
  [r0 EXCEPT !.errors = <<Err("Unknown certificate type", <<PyNone>>)>>]

\* lines 279-290: the result returned for a missing (or falsy) cert_type
MissingCertType(r0) ==
  [r0 EXCEPT !.errors = <<Err("Missing 'cert_type' field", <<>>)>>]

\* UnknownCertType as it would be without the return at line 299: the
\* validation goes on with no schema bound and ends in the outer except
UnknownCertTypeNoReturn(r0, cert_type) ==
  [r0 EXCEPT !.errors = <<Err("Unknown certificate type", <<cert_type>>),
                          Err("Unexpected error during validation",
                              <<"UnboundLocalError">>)>>,
             !.steps = <<"validate">>]

\* lines 297-307: the result returned for a cert_type that names no schema
UnknownCertType(r0, cert_type) ==
  [r0 EXCEPT !.errors = <<Err("Unknown certificate type", <<cert_type>>)>>]

\* SelectSchema as it would be if one schema served both kinds
SelectBackupSchema(cert_type) == BACKUP_SCHEMA

\* lines 293-296: the schema of a cert_type that is "backup" or "wipe"
SelectSchema(cert_type) ==
  IF cert_type = PyStr(s_backup) THEN BACKUP_SCHEMA ELSE WIPE_SCHEMA

validate_certificate(cert_data, cert_json_bytes, linked_backup_cert) ==
  LET r0 == InitialResult(cert_json_bytes)
  IN  IF ~IsDict(cert_data) THEN OuterExcept([r0 EXCEPT !.exc = "AttributeError"])
      ELSE
        LET cert_type == DictGet(cert_data, s_cert_type, PyNone)
        IN  IF ~Truthy(cert_type)
            THEN MissingCertType(r0)
            ELSE IF cert_type # PyStr(s_backup) /\ cert_type # PyStr(s_wipe)
            THEN UnknownCertType(r0, cert_type)
            ELSE
              LET schema == SelectSchema(cert_type)
                  r1 == SchemaCheck(r0, cert_data, schema)
                  r2 == SignatureCheck(r1, cert_data)
                  r3 == HashCheck(r2, cert_data, cert_type)
                  r4 == ChainCheck(r3, cert_data, cert_type, linked_backup_cert)
                  r5 == SummaryStep(r4, cert_data)
              IN  OuterExcept(r5)

\* ------------------------------------------------------------- json.loads

Whitespace == {" ", "\n", "\t"}

RECURSIVE SkipWhitespace(_, _)
SkipWhitespace(s, i) ==
  IF i <= Len(s) /\ s[i] \in Whitespace THEN SkipWhitespace(s, i + 1) ELSE i

\* The outcome of scanning one value: ok is FALSE for a JSONDecodeError,
\* otherwise val is the value and end the index after it.
Scanned(val, end) == [ok |-> TRUE, val |-> val, end |-> end]
DecodeError == [ok |-> FALSE, val |-> PyNone, end |-> 0]

\* s holds lit at index i
StartsWith(s, i, lit) ==
  /\ i + Len(lit) - 1 <= Len(s)
  /\ SubSeq(s, i, i + Len(lit) - 1) = lit

\* json.decoder.py_scanstring in strict mode, from the index after the
\* opening quote: the characters up to the closing quote, with the escapes
\* replaced; a control character or an unknown escape is an error.  The
\* escapes \b \f \r \uXXXX denote characters outside Chars; no body of the
\* model uses them.
RECURSIVE ScanEscaped(_, _, _)
ScanEscaped(s, i, acc) ==
  IF i > Len(s) THEN DecodeError
  ELSE
    LET c == s[i]
    IN  IF c = "\"" THEN Scanned(PyStr(acc), i + 1)
        ELSE IF c \in {"\n", "\t"} THEN DecodeError
        ELSE IF c # "\\" THEN ScanEscaped(s, i + 1, Append(acc, c))
        ELSE IF i + 1 > Len(s) THEN DecodeError
        ELSE
          LET e == s[i + 1]
          IN  CASE e \in {"\"", "\\", "/"} -> ScanEscaped(s, i + 2, Append(acc, e))
                [] e = "n" -> ScanEscaped(s, i + 2, Append(acc, "\n"))
                [] e = "t" -> ScanEscaped(s, i + 2, Append(acc, "\t"))
                [] OTHER -> DecodeError

\* the same scan; a string that holds no backslash is taken in one piece
ScanString(s, i, acc) ==
  LET stops == {j \in i..Len(s) : s[j] \in {"\"", "\\", "\n", "\t"}}
  IN  IF stops = {} THEN DecodeError
      ELSE
        LET stop == CHOOSE j \in stops : \A k \in stops : j <= k
        IN  IF s[stop] = "\""
            THEN Scanned(PyStr(acc \o SubSeq(s, i, stop - 1)), stop + 1)
            ELSE ScanEscaped(s, i, acc)

IsDigit(c) == \E j \in 1..Len(Digits) : Digits[j] = c

DigitValue(c) == (CHOOSE j \in 1..Len(Digits) : Digits[j] = c) - 1

\* the index after the run of digits that starts at i
RECURSIVE ScanDigits(_, _)
ScanDigits(s, i) ==
  IF i <= Len(s) /\ IsDigit(s[i]) THEN ScanDigits(s, i + 1) ELSE i

\* int() of the digits s[i..j]
RECURSIVE NatValue(_, _, _)
NatValue(s, i, j) ==
  IF j < i THEN 0 ELSE NatValue(s, i, j - 1) * 10 + DigitValue(s[j])

\* json.scanner NUMBER_RE, integer part: -?(0|[1-9][0-9]*).  The bodies of
\* the model hold no fraction and no exponent.
ScanNumber(s, i) ==
  LET neg == s[i] = "-"
      first == IF neg THEN i + 1 ELSE i
  IN  IF first > Len(s) \/ ~IsDigit(s[first]) THEN DecodeError
      ELSE
        LET end == IF s[first] = "0" THEN first + 1 ELSE ScanDigits(s, first)
            n == NatValue(s, first, end - 1)
        IN  Scanned(PyInt(IF neg THEN -n ELSE n), end)

\* json.scanner.py_make_scanner._scan_once with JSONObject and JSONArray:
\* an object keeps the first place and the last value of a repeated key
RECURSIVE ScanOnce(_, _), JSONObject(_, _, _), JSONArray(_, _, _)
ScanOnce(s, i) ==
  IF i > Len(s) THEN DecodeError
  ELSE
    LET c == s[i]
    IN  CASE c = "\"" -> ScanString(s, i + 1, <<>>)
          [] c = "{" ->
               LET j == SkipWhitespace(s, i + 1)
               IN  IF j <= Len(s) /\ s[j] = "}" THEN Scanned(PyDict(<<>>), j + 1)
                   ELSE JSONObject(s, j, PyDict(<<>>))
          [] c = "[" ->
               LET j == SkipWhitespace(s, i + 1)
               IN  IF j <= Len(s) /\ s[j] = "]" THEN Scanned(PyList(<<>>), j + 1)
                   ELSE JSONArray(s, j, <<>>)
          [] c = "n" /\ StartsWith(s, i, <<"n", "u", "l", "l">>) ->
               Scanned(PyNone, i + 4)
          [] c = "t" /\ StartsWith(s, i, <<"t", "r", "u", "e">>) ->
               Scanned(PyBool(TRUE), i + 4)
          [] c = "f" /\ StartsWith(s, i, <<"f", "a", "l", "s", "e">>) ->
               Scanned(PyBool(FALSE), i + 5)
          [] c = "N" /\ StartsWith(s, i, <<"N", "a", "N">>) ->
               Scanned(PyNaN, i + 3)
          [] IsDigit(c) \/ c = "-" -> ScanNumber(s, i)
          [] OTHER -> DecodeError

JSONObject(s, i, d) ==
  IF i > Len(s) \/ s[i] # "\"" THEN DecodeError
  ELSE
    LET key == ScanString(s, i + 1, <<>>)
    IN  IF ~key.ok THEN DecodeError
        ELSE
          LET colon == SkipWhitespace(s, key.end)
          IN  IF colon > Len(s) \/ s[colon] # ":" THEN DecodeError
              ELSE
                LET value == ScanOnce(s, SkipWhitespace(s, colon + 1))
                IN  IF ~value.ok THEN DecodeError
                    ELSE
                      LET next == SkipWhitespace(s, value.end)
                          members == DictSet(d, key.val.v, value.val)
                      IN  IF next > Len(s) THEN DecodeError
                          ELSE IF s[next] = "}" THEN Scanned(members, next + 1)
                          ELSE IF s[next] = ","
                          THEN JSONObject(s, SkipWhitespace(s, next + 1), members)
                          ELSE DecodeError

JSONArray(s, i, xs) ==
  LET value == ScanOnce(s, i)
  IN  IF ~value.ok THEN DecodeError
      ELSE
        LET next == SkipWhitespace(s, value.end)
            items == Append(xs, value.val)
        IN  IF next > Len(s) THEN DecodeError
            ELSE IF s[next] = "]" THEN Scanned(PyList(items), next + 1)
            ELSE IF s[next] = ","
            THEN JSONArray(s, SkipWhitespace(s, next + 1), items)
            ELSE DecodeError

\* json.loads(s): one value with optional whitespace around it; anything
\* after it is "Extra data"
json_loads(s) ==
  LET value == ScanOnce(s, SkipWhitespace(s, 1))
  IN  IF value.ok /\ SkipWhitespace(s, value.end) = Len(s) + 1
      THEN value
      ELSE DecodeError

\* ------------------------------------------------------ verify_certificate

\* What POST /verify answers: status is the HTTP status, result the
\* VerificationResult of status 200; cert_data and linked_backup_cert are
\* what the handler passed to validate_certificate.
Response(status, result, cert, linked) ==
  [status |-> status, result |-> result, cert_data |-> cert,
   linked_backup_cert |-> linked, request_data |-> PyNone]

\* the caller's certificate after validate_certificate returned r: the
\* statements of lines 210-212 are the only ones that delete a member, and
\* they are run when the signature check gets as far as canonicalize_json
CertAfterCall(cert_data, r) ==
  IF \E i \in 1..Len(r.steps) : r.steps[i] = "canonicalize_json"
  THEN WithoutSignature(cert_data).cert_data
  ELSE cert_data

\* PopLinked as it would be if the member were read and left in the
\* certificate
PopLinkedKeeping(request_data) ==
  LET embedded == IsDict(request_data) /\ HasKey(request_data, s_linked_backup_cert)
  IN  [request_data |-> request_data,
       cert_data |-> request_data,
       linked_backup_cert |-> IF embedded
                              THEN DictGet(request_data, s_linked_backup_cert, PyNone)
                              ELSE PyNone]

\* lines 511-516: cert_data = request_data.copy(), then
\* cert_data.pop("linked_backup_cert") if the copy has that member; the
\* parsed request, the copy and the value popped afterwards
PopLinked(request_data) ==
  LET embedded == IsDict(request_data) /\ HasKey(request_data, s_linked_backup_cert)
  IN  [request_data |-> request_data,
       cert_data |-> IF embedded THEN DictDel(request_data, s_linked_backup_cert)
                     ELSE request_data,
       linked_backup_cert |-> IF embedded
                              THEN DictGet(request_data, s_linked_backup_cert, PyNone)
                              ELSE PyNone]

\* an HTTPException: no VerificationResult is built; exc names what raised it
HTTPException(status, exc) ==
  Response(status,
           [InitialResult(<<>>) EXCEPT !.exc = exc],
           PyNone, PyNone)

\* lines 503-513: the certificate and the linked one are taken from the
\* parsed body and validated.  copy() exists on a dict and on a list only;
\* on a list, `in` looks for an element and pop() of a str is a TypeError.
ExtractAndValidate(request_data, body) ==
  IF request_data.t \notin {"dict", "list"} THEN HTTPException(500, "AttributeError")
  ELSE IF /\ request_data.t = "list"
          /\ \E i \in 1..Len(request_data.v) :
                request_data.v[i] = PyStr(s_linked_backup_cert)
  THEN HTTPException(500, "TypeError")
  ELSE
    LET popped == PopLinked(request_data)
        cert == popped.cert_data
        linked == popped.linked_backup_cert
        r == validate_certificate(cert, body, linked)
    IN  [Response(200, r, CertAfterCall(cert, r), linked)
           EXCEPT !.request_data = popped.request_data]

\* lines 498-501: the outcome of json.loads decides between 400 and the rest
AfterParse(parsed, body) ==
  IF ~parsed.ok THEN HTTPException(400, "JSONDecodeError")
  ELSE ExtractAndValidate(parsed.val, body)

\* line 500, body.decode('utf-8'): whether the bytes decode
Utf8Decodes(body) == \A i \in 1..Len(body) : body[i] # InvalidByte

\* lines 496-529: bytes that do not decode raise UnicodeDecodeError, which
\* is not a JSONDecodeError and is answered by the last except clause
verify_certificate(body) ==
  IF body = <<>> THEN HTTPException(400, "Empty request body")
  ELSE IF ~Utf8Decodes(body) THEN HTTPException(500, "UnicodeDecodeError")
  ELSE AfterParse(json_loads(body), body)

\* ------------------------------------------------ certificates of the model

s_B1 == <<"B", "1">>
s_B2 == <<"B", "2">>
s_W1 == <<"W", "1">>
s_M1 == <<"M", "1">>
s_M2 == <<"M", "2">>
s_bus == <<"b", "u", "s">>
s_USB == <<"U", "S", "B">>
s_RSA == <<"R", "S", "A">>
s_other_key == <<"o", "t", "h", "e", "r", "_", "k", "e", "y">>
s_x == <<"x">>
s_note == <<"n", "o", "t", "e">>
s_bad_b64 == <<"T", "Q", "=">>
s_not_b64 == <<"!", "!">>
s_wrong_sig == <<"A", "A", "A", "A">>
s_wrong_hash == <<"0", "0", "f", "f", "0", "0">>

\* base64.b64encode of three bytes
B64Encode(bytes) ==
  << B64Alphabet[(bytes[1] \div 4) + 1],
     B64Alphabet[((bytes[1] % 4) * 16 + bytes[2] \div 16) + 1],
     B64Alphabet[((bytes[2] % 16) * 4 + bytes[3] \div 64) + 1],
     B64Alphabet[(bytes[3] % 64) + 1] >>

\* a key that is not the portal's
OtherKey == PUBLIC_KEY_BYTES + 1

\* The issuing tool: the signature block over the canonical form of the
\* certificate without its signature member.
SignedBy(cert, key) ==
  LET unsigned == DictDel(cert, s_signature)
      sig == B64Encode(Ed25519Sign(key, canonicalize_json(unsigned)))
  IN  DictSet(cert, s_signature,
              PyDict(<< <<s_alg, PyStr(s_Ed25519)>>,
                        <<s_sig, PyStr(sig)>>,
                        <<s_pubkey_id, PyStr(s_sih_root_v1)>> >>))

DeviceM1 == PyDict(<< <<s_model, PyStr(s_M1)>>, <<s_bus, PyStr(s_USB)>> >>)

BackupFields ==
  PyDict(<< <<s_cert_type, PyStr(s_backup)>>,
            <<s_cert_id, PyStr(s_B1)>>,
            <<s_device, DeviceM1>>,
            <<s_metadata,
              PyDict(<< <<s_certificate_json_sha256, PyStr(s_wrong_hash)>> >>)>> >>)

\* the bytes the backup certificate's declared hash is taken over
BackupBytes == CompactDumps(BackupFields)

\* a backup certificate that declares the digest of BackupBytes and is signed
BackupCert ==
  SignedBy(DictSet(BackupFields, s_metadata,
                   PyDict(<< <<s_certificate_json_sha256,
                               PyStr(compute_certificate_hash(BackupBytes))>> >>)),
           PUBLIC_KEY_BYTES)

\* a backup certificate signed without its device member: the signature and
\* the declared hash are good, the schema is not met
BackupWithoutDevice == SignedBy(DictDel(BackupCert, s_device), PUBLIC_KEY_BYTES)

\* a signed wipe certificate that refers to BackupCert
WipeCert ==
  SignedBy(PyDict(<< <<s_cert_type, PyStr(s_wipe)>>,
                     <<s_cert_id, PyStr(s_W1)>>,
                     <<s_device, DeviceM1>>,
                     <<s_linkage, PyDict(<< <<s_backup_cert_id, PyStr(s_B1)>> >>)>> >>),
           PUBLIC_KEY_BYTES)

\* An edit of one member: path is <<key>> or <<key, key>>; del removes the
\* member, otherwise val is stored there.
Edit(path, val) == [del |-> FALSE, path |-> path, val |-> val]
Removal(path) == [del |-> TRUE, path |-> path, val |-> PyNone]

FieldEdits ==
  { Edit(<<s_cert_type>>, v) :
      v \in {PyStr(<<>>), PyNone, PyInt(0), PyInt(7), PyStr(s_unknown),
             PyStr(s_backup), PyStr(s_wipe)} }
  \cup { Edit(<<s_signature>>, v) : v \in {PyNone, PyDict(<<>>), PyStr(<<>>), PyStr(s_x)} }
  \cup { Edit(<<s_signature, s_alg>>, PyStr(s_RSA)),
         Edit(<<s_signature, s_pubkey_id>>, PyStr(s_other_key)) }
  \cup { Edit(<<s_signature, s_sig>>, v) :
           v \in {PyStr(<<>>), PyStr(s_not_b64), PyStr(s_bad_b64),
                  PyStr(s_wrong_sig), PyInt(1)} }
  \cup { Edit(<<s_metadata>>, v) : v \in {PyNone, PyStr(s_x)} }
  \cup { Edit(<<s_metadata, s_certificate_json_sha256>>, v) :
           v \in {PyStr(<<>>), PyStr(s_wrong_hash), PyInt(1)} }
  \cup { Edit(<<s_cert_id>>, PyStr(s_B2)),
         Edit(<<s_device>>, PyNone),
         Edit(<<s_device, s_model>>, PyStr(s_M2)),
         Edit(<<s_linkage>>, PyStr(s_x)),
         Edit(<<s_linkage, s_backup_cert_id>>, PyStr(s_B2)),
         Edit(<<s_linkage, s_backup_cert_id>>, PyStr(<<>>)),
         Edit(<<s_note>>, PyStr(s_x)) }
  \cup { Removal(<<k>>) :
           k \in {s_cert_type, s_signature, s_metadata, s_cert_id, s_device, s_linkage} }
  \cup { Removal(p) :
           p \in { <<s_signature, s_alg>>, <<s_signature, s_sig>>,
                   <<s_metadata, s_certificate_json_sha256>>, <<s_device, s_bus>>,
                   <<s_linkage, s_backup_cert_id>> } }

\* whether the edit can be made on the certificate: a removal needs the
\* member, a nested edit needs its parent to be a dict
Applicable(cert, e) ==
  /\ IsDict(cert)
  /\ IF Len(e.path) = 1 THEN e.del => HasKey(cert, e.path[1])
     ELSE /\ HasKey(cert, e.path[1])
          /\ IsDict(DictGet(cert, e.path[1], PyNone))
          /\ e.del => HasKey(DictGet(cert, e.path[1], PyNone), e.path[2])

ApplyEdit(cert, e) ==
  IF Len(e.path) = 1
  THEN IF e.del THEN DictDel(cert, e.path[1]) ELSE DictSet(cert, e.path[1], e.val)
  ELSE LET parent == DictGet(cert, e.path[1], PyNone)
       IN  DictSet(cert, e.path[1],
                   IF e.del THEN DictDel(parent, e.path[2])
                   ELSE DictSet(parent, e.path[2], e.val))

Reverse(s) == [i \in 1..Len(s) |-> s[Len(s) + 1 - i]]

\* the same value with the members of every object, at every depth, reversed
RECURSIVE DeepReverse(_)
DeepReverse(x) ==
  CASE x.t = "dict" ->
         PyDict(Reverse([i \in 1..Len(x.v) |-> <<x.v[i][1], DeepReverse(x.v[i][2])>>]))
    [] x.t = "list" -> PyList([i \in 1..Len(x.v) |-> DeepReverse(x.v[i])])
    [] OTHER -> x

\* the same value with only the top-level members reversed
TopReverse(x) == IF IsDict(x) THEN PyDict(Reverse(x.v)) ELSE x

\* json.dumps(x) with the default separators
SpacedDumps(x) == Dumps(x, <<",", " ">>, <<":", " ">>)

\* str.upper() of a hex digest
HexUpper(s) ==
  [i \in 1..Len(s) |->
     IF \E j \in 1..Len(LowerCase) : LowerCase[j] = s[i]
     THEN UpperCase[CHOOSE j \in 1..Len(LowerCase) : LowerCase[j] = s[i]]
     ELSE s[i]]

\* linked certificates a caller may supply
LinkedChoices ==
  { PyNone,
    BackupCert,
    SignedBy(DictSet(BackupCert, s_cert_id, PyStr(s_B2)), PUBLIC_KEY_BYTES),
    DictDel(BackupCert, s_device),
    PyStr(s_x) }

\* ---------------------------------------------------------- request bodies

MalformedBodies ==
  { <<"{">>,
    <<"{", "\"", "a", "\"", ":", "}">>,
    <<"n", "u", "l">>,
    <<" ">>,
    <<"{", "}", "x">>,
    <<"0", "1">>,
    <<"[", "1", ",", "]">>,
    <<"{", "\"", "a", "\"", " ", "1", "}">>,
    <<"\"", "x">> }

\* bodies that are not UTF-8
UndecodableBodies ==
  { <<InvalidByte>>,
    <<"{", "\"", "a", "\"", ":", "\"", InvalidByte, "\"", "}">> }

ScalarBodies ==
  { <<"0">>,
    <<"7">>,
    <<"-", "1">>,
    <<"\"", "x", "\"">>,
    <<"\"", "\"">>,
    <<"t", "r", "u", "e">>,
    <<"f", "a", "l", "s", "e">>,
    <<"n", "u", "l", "l">>,
    <<"N", "a", "N">> }

ArrayBodies ==
  { <<"[", "]">>,
    <<"[", "1", "]">>,
    <<"[", "\"", "l", "i", "n", "k", "e", "d", "_", "b", "a", "c", "k", "u", "p", "_", "c", "e", "r", "t", "\"", "]">>,
    <<"[", "{", "\"", "c", "e", "r", "t", "_", "t", "y", "p", "e", "\"", ":", "\"", "b", "a", "c", "k", "u", "p", "\"", "}", "]">>,
    <<" ", "[", " ", "1", " ", ",", " ", "\"", "x", "\"", " ", "]", " ">> }

ObjectBodies ==
  { <<"{", "}">>,
    <<" ", "{", "}", " ", "\n">>,
    <<"{", "\"", "c", "e", "r", "t", "_", "t", "y", "p", "e", "\"", ":", "\"", "\"", "}">>,
    <<"{", "\"", "c", "e", "r", "t", "_", "t", "y", "p", "e", "\"", ":", "n", "u", "l", "l", "}">>,
    <<"{", "\"", "c", "e", "r", "t", "_", "t", "y", "p", "e", "\"", ":", "0", "}">>,
    <<"{", "\"", "c", "e", "r", "t", "_", "t", "y", "p", "e", "\"", ":", "[", "]", "}">>,
    <<"{", "\"", "c", "e", "r", "t", "_", "t", "y", "p", "e", "\"", ":", "\"", "o", "t", "h", "e", "r", "\"", "}">>,
    <<"{", "\"", "c", "e", "r", "t", "_", "t", "y", "p", "e", "\"", ":", "7", "}">>,
    <<"{", "\"", "c", "e", "r", "t", "_", "t", "y", "p", "e", "\"", ":", "[", "\"", "b", "a", "c", "k", "u", "p", "\"", "]", "}">>,
    <<"{", "\"", "c", "e", "r", "t", "_", "t", "y", "p", "e", "\"", ":", "\"", "b", "a", "c", "k", "u", "p", "\"", "}">>,
    <<"{", "\"", "c", "e", "r", "t", "_", "t", "y", "p", "e", "\"", ":", "\"", "w", "i", "p", "e", "\"", ",", "\"", "l", "i", "n", "k", "e", "d", "_", "b", "a", "c", "k", "u", "p", "_", "c", "e", "r", "t", "\"", ":", "\"", "x", "\"", "}">>,
    <<"{", "\"", "c", "e", "r", "t", "_", "t", "y", "p", "e", "\"", ":", "\"", "w", "i", "p", "e", "\"", ",", "\"", "c", "e", "r", "t", "_", "t", "y", "p", "e", "\"", ":", "\"", "b", "a", "c", "k", "u", "p", "\"", "}">>,
    <<"{", "\"", "c", "e", "r", "t", "_", "t", "y", "p", "e", "\"", ":", "\"", "b", "a", "c", "k", "u", "p", "\"", ",", "\"", "s", "i", "g", "n", "a", "t", "u", "r", "e", "\"", ":", "\"", "x", "\"", "}">>,
    <<"{", "\"", "c", "e", "r", "t", "_", "t", "y", "p", "e", "\"", ":", "\"", "b", "a", "c", "k", "u", "p", "\"", ",", "\"", "m", "e", "t", "a", "d", "a", "t", "a", "\"", ":", "\"", "x", "\"", "}">>,
    <<"{", "\"", "c", "e", "r", "t", "_", "t", "y", "p", "e", "\"", ":", "\"", "b", "a", "c", "k", "u", "p", "\"", ",", "\"", "d", "e", "v", "i", "c", "e", "\"", ":", "N", "a", "N", "}">> }

\* the bodies a client may post, given the certificate and the linked
\* certificate at hand: the certificate in compact and in spaced form, and
\* the certificate with the linked one embedded
RequestBodies(cert, linked) ==
  {<<>>} \cup MalformedBodies \cup UndecodableBodies \cup ScalarBodies \cup ArrayBodies \cup ObjectBodies
  \cup (IF IsDict(cert)
        THEN { CompactDumps(cert), SpacedDumps(cert),
               CompactDumps(DictSet(cert, s_linked_backup_cert, linked)),
               SpacedDumps(DictSet(TopReverse(cert), s_linked_backup_cert, linked)) }
        ELSE {})

\* ------------------------------------------------------------ the system

\* the greatest number of calls made after the first in one behaviour
MaxEdits == 1

VARIABLES
  cert_data,          \* the certificate passed to validate_certificate last
  cert_json_bytes,    \* the raw bytes of the last call or request
  linked_backup_cert, \* the linked certificate of the last call (PyNone: none)
  result,             \* what the last call returned
  http_status,        \* the status of the last POST /verify (0: a direct call)
  op,                 \* the change that led to the last call
  edits,              \* the number of calls made after the first
  request_data,       \* the parsed body of the last POST /verify, as the handler
                      \* leaves it (PyNone: a direct call, or nothing parsed)
  startup,            \* how far the module body has run
  module_globals,     \* BACKUP_SCHEMA, WIPE_SCHEMA, PUBLIC_KEY_BYTES of the module
  invocations         \* the requests in progress, one slot each

vars ==
  <<cert_data, cert_json_bytes, linked_backup_cert, result, http_status, op, edits,
    request_data, startup, module_globals, invocations>>

service_vars == <<startup, module_globals, invocations>>

\* the greatest number of requests in progress at once
MaxInvocations == 2

Invocations == 1..MaxInvocations

\* a module global that holds None
Unset == <<>>

\* lines 43-46: the module globals before the loads
GlobalsUnset ==
  [BACKUP_SCHEMA |-> Unset, WIPE_SCHEMA |-> Unset, PUBLIC_KEY_BYTES |-> Unset]

\* lines 49-104: the module globals after both loads succeeded
GlobalsLoaded ==
  [BACKUP_SCHEMA |-> <<BACKUP_SCHEMA>>, WIPE_SCHEMA |-> <<WIPE_SCHEMA>>,
   PUBLIC_KEY_BYTES |-> <<PUBLIC_KEY_BYTES>>]

\* a slot with no request in progress.  pc is the handler's position, body
\* the bytes received, schema the value bound to the local name schema,
\* result the VerificationResult under construction, response what the
\* handler returned, health what health_check returned (<<>>: nothing).
Idle ==
  [pc |-> "idle", body |-> <<>>, schema |-> Unset,
   result |-> InitialResult(<<>>), response |-> HTTPException(0, ""),
   health |-> <<>>]

\* the module was imported and no request is in progress
ServiceUp ==
  /\ startup = "serving"
  /\ module_globals = GlobalsLoaded
  /\ invocations = [p \in Invocations |-> Idle]

\* validate_certificate is called on the new inputs
Call(cert, bytes, linked, name) ==
  /\ edits < MaxEdits
  /\ <<cert, bytes, linked>> # <<cert_data, cert_json_bytes, linked_backup_cert>>
  /\ result' = validate_certificate(cert, bytes, linked)
  /\ cert_data' = CertAfterCall(cert, result')
  /\ cert_json_bytes' = bytes
  /\ linked_backup_cert' = linked
  /\ http_status' = 0
  /\ op' = name
  /\ edits' = edits + 1
  /\ request_data' = PyNone
  /\ UNCHANGED service_vars

Init ==
  /\ \E base \in {<<BackupCert, BackupBytes, PyNone>>,
                  <<BackupWithoutDevice, BackupBytes, PyNone>>,
                  <<WipeCert, CompactDumps(WipeCert), BackupCert>>} :
       /\ result = validate_certificate(base[1], base[2], base[3])
       /\ cert_data = CertAfterCall(base[1], result)
       /\ cert_json_bytes = base[2]
       /\ linked_backup_cert = base[3]
  /\ http_status = 0
  /\ op = "issue"
  /\ edits = 0
  /\ request_data = PyNone
  /\ ServiceUp

\* one member of the certificate is set or removed
EditCertificate ==
  \E e \in FieldEdits :
    /\ Applicable(cert_data, e)
    /\ Call(ApplyEdit(cert_data, e), cert_json_bytes, linked_backup_cert, "edit")

\* the members are put in another order
ReorderMembers ==
  \E c \in {TopReverse(cert_data), DeepReverse(cert_data)} :
    Call(c, cert_json_bytes, linked_backup_cert, "reorder")

\* the certificate is signed again, as it stands, by the issuer or by another key
Resign ==
  /\ IsDict(cert_data)
  /\ \E key \in {PUBLIC_KEY_BYTES, OtherKey} :
       Call(SignedBy(cert_data, key), cert_json_bytes, linked_backup_cert, "sign")

\* the certificate declares the digest of the bytes, in lower or upper case
DeclareHash ==
  /\ IsDict(cert_data)
  /\ \E h \in {compute_certificate_hash(cert_json_bytes),
               HexUpper(compute_certificate_hash(cert_json_bytes))} :
       Call(DictSet(cert_data, s_metadata,
                    PyDict(<< <<s_certificate_json_sha256, PyStr(h)>> >>)),
            cert_json_bytes, linked_backup_cert, "declare")

\* other raw bytes are passed with the same certificate
ReplaceBytes ==
  \E b \in {CompactDumps(cert_data), SpacedDumps(cert_data),
            Append(cert_json_bytes, "\n")} :
    Call(cert_data, b, linked_backup_cert, "bytes")

\* another linked certificate, or none, is passed
SupplyLinked ==
  \E l \in LinkedChoices :
    Call(cert_data, cert_json_bytes, l, "link")

\* POST /verify with a body: the whole handler
PostVerify ==
  /\ edits < MaxEdits
  /\ \E body \in RequestBodies(cert_data, linked_backup_cert) :
       \E response \in {verify_certificate(body)} :
           /\ cert_json_bytes' = body
           /\ cert_data' = response.cert_data
           /\ linked_backup_cert' = response.linked_backup_cert
           /\ result' = response.result
           /\ http_status' = response.status
           /\ request_data' = response.request_data
  /\ op' = "post"
  /\ edits' = edits + 1
  /\ UNCHANGED service_vars

Next ==
  \/ EditCertificate
  \/ ReorderMembers
  \/ Resign
  \/ DeclareHash
  \/ ReplaceBytes
  \/ SupplyLinked
  \/ PostVerify

Spec == Init /\ [][Next]_vars

\* ------------------------------------------------------------- properties

\* the last call returned a VerificationResult for cert_data
Validated == http_status \in {0, 200}

CertType == DictGet(cert_data, s_cert_type, PyNone)

IsBackup == IsDict(cert_data) /\ CertType = PyStr(s_backup)
IsWipe == IsDict(cert_data) /\ CertType = PyStr(s_wipe)

\* the call entered the step
Ran(step) == \E i \in 1..Len(result.steps) : result.steps[i] = step

\* the errors list holds a message of the kind
HasError(kind) == \E i \in 1..Len(result.errors) : result.errors[i].kind = kind

NoVerdicts ==
  /\ result.schema_valid = FALSE
  /\ result.signature_valid = PyNone
  /\ result.hash_valid = PyNone
  /\ result.chain_valid = PyNone

\* metadata.certificate_json_sha256 of the certificate (PyNone: not declared)
DeclaredHash ==
  IF IsDict(cert_data) /\ IsDict(DictGet(cert_data, s_metadata, PyNone))
  THEN DictGet(DictGet(cert_data, s_metadata, PyNone), s_certificate_json_sha256, PyNone)
  ELSE PyNone

\* C1: for a certificate whose cert_type is backup or wipe, every check is
\* entered whatever the checks before it found: the schema validation and
\* the signature verification always, the hash check of a backup
\* certificate, the chain check of a wipe certificate with a linked one.
\* signature_valid is what verify_ed25519_signature answers for the
\* certificate (false when it raises), each failed check has its message in
\* errors, and a failure of the schema changes none of this.
C1_ChecksRunIndependently ==
  (Validated /\ (IsBackup \/ IsWipe)) =>
    LET o == verify_ed25519_signature(cert_data)
    IN  /\ Ran("validate")
        /\ Ran("verify_ed25519_signature")
        /\ ~result.schema_valid <=> HasError("Schema validation error")
        /\ result.signature_valid = IF o.exc # "" THEN PyBool(FALSE) ELSE o.ret
        /\ (o.exc # "") <=> HasError("Signature verification error")
        /\ (o.exc = "" /\ o.ret = PyBool(FALSE)) <=> HasError("Invalid Ed25519 signature")
        /\ IsBackup =>
             /\ Ran("hash_check")
             /\ (IsStr(DeclaredHash) /\ Truthy(DeclaredHash)) =>
                  /\ Ran("hash_compare")
                  /\ result.hash_valid \in {PyBool(TRUE), PyBool(FALSE)}
                  /\ (result.hash_valid = PyBool(FALSE))
                       <=> HasError("Certificate hash mismatch")
        /\ (IsWipe /\ Truthy(linked_backup_cert)) =>
             /\ Ran("validate_linked")
             /\ (result.chain_valid = PyBool(FALSE))
                  <=> \/ HasError("Linked backup certificate schema error")
                      \/ HasError("Chain validation error")
                      \/ HasError("Chain linkage validation failed: backup_cert_id mismatch")

\* a backup certificate that fails the schema and whose signature
\* verification raises, with the hash nevertheless compared and found good
C1_Witness ==
  /\ Validated /\ IsBackup
  /\ ~result.schema_valid
  /\ HasError("Signature verification error")
  /\ result.hash_valid = PyBool(TRUE)

\* C2: every request body that parses as JSON is answered with status 200
\* and a VerificationResult.
C2_ValidJsonAlwaysAnswered ==
  (op = "post" /\ cert_json_bytes # <<>> /\ json_loads(cert_json_bytes).ok)
    => http_status = 200

\* C3: a certificate (a JSON object) with no cert_type member gets no
\* verdict at all and exactly one error, which names the missing field.
C3_MissingCertType ==
  (Validated /\ IsDict(cert_data) /\ ~HasKey(cert_data, s_cert_type)) =>
    /\ NoVerdicts
    /\ result.errors = <<Err("Missing 'cert_type' field", <<>>)>>

\* a signed certificate from which cert_type was removed
C3_Witness ==
  /\ Validated /\ IsDict(cert_data)
  /\ ~HasKey(cert_data, s_cert_type)
  /\ HasKey(cert_data, s_signature)
  /\ Len(result.errors) = 1

\* C4 as stated: a cert_type that is present and is neither backup nor wipe
\* gets no verdict, the one error "Unknown certificate type", and no check.
C4_PresentUnrecognizedIsUnknown ==
  (Validated /\ IsDict(cert_data) /\ HasKey(cert_data, s_cert_type)
     /\ ~IsBackup /\ ~IsWipe) =>
    /\ NoVerdicts
    /\ result.errors = <<Err("Unknown certificate type", <<CertType>>)>>
    /\ result.steps = <<>>

\* C4 (amended): a cert_type that is present, truthy and neither backup nor
\* wipe gets no verdict, the one error "Unknown certificate type" and no
\* check; a cert_type that is present but falsy (null, false, 0, "", [], {})
\* gets no verdict and no check either, and its one error is the one of a
\* missing cert_type.
C4_UnrecognizedCertType ==
  (Validated /\ IsDict(cert_data) /\ HasKey(cert_data, s_cert_type)
     /\ ~IsBackup /\ ~IsWipe) =>
    /\ NoVerdicts
    /\ result.steps = <<>>
    /\ result.errors =
         IF Truthy(CertType)
         THEN <<Err("Unknown certificate type", <<CertType>>)>>
         ELSE <<Err("Missing 'cert_type' field", <<>>)>>

\* a signed certificate whose cert_type was set to a value that names no schema
C4_Witness ==
  /\ Validated /\ IsDict(cert_data)
  /\ Truthy(CertType) /\ ~IsBackup /\ ~IsWipe
  /\ HasKey(cert_data, s_signature)
  /\ HasError("Unknown certificate type")

\* the certificate's signature member (PyNone: absent)
SignatureOf(cert) == DictGet(cert, s_signature, PyNone)

\* C5 as stated: signature_valid is null exactly when the certificate has no
\* signature member, and verify_ed25519_signature returns true or false
\* whenever the member is present.
C5_NullExactlyWhenAbsent ==
  (Validated /\ (IsBackup \/ IsWipe)) =>
    LET o == verify_ed25519_signature(cert_data)
    IN  /\ (result.signature_valid = PyNone) <=> ~HasKey(cert_data, s_signature)
        /\ HasKey(cert_data, s_signature) =>
             (o.exc = "" /\ o.ret \in {PyBool(TRUE), PyBool(FALSE)})

\* C5 (amended): for a certificate whose cert_type is backup or wipe,
\* signature_valid is null exactly when the signature member is absent or
\* falsy (null, false, 0, "", [], {}), and verify_ed25519_signature returns
\* null then; it returns true or false when the member is a non-empty object;
\* for any other truthy member it raises, which validate_certificate reports
\* as signature_valid = false with a "Signature verification error".
C5_NullWhenAbsentOrFalsy ==
  (Validated /\ (IsBackup \/ IsWipe)) =>
    LET o == verify_ed25519_signature(cert_data)
        signature_obj == SignatureOf(cert_data)
    IN  /\ (result.signature_valid = PyNone) <=> ~Truthy(signature_obj)
        /\ ~Truthy(signature_obj) => (o.exc = "" /\ o.ret = PyNone)
        /\ (Truthy(signature_obj) /\ IsDict(signature_obj)) =>
             /\ o.exc = ""
             /\ o.ret \in {PyBool(TRUE), PyBool(FALSE)}
             /\ result.signature_valid = o.ret
        /\ (Truthy(signature_obj) /\ ~IsDict(signature_obj)) =>
             /\ o.exc = "AttributeError"
             /\ result.signature_valid = PyBool(FALSE)
             /\ HasError("Signature verification error")

\* a certificate whose signature member is present and empty, left without
\* a signature verdict
C5_Witness ==
  /\ Validated /\ (IsBackup \/ IsWipe)
  /\ HasKey(cert_data, s_signature)
  /\ ~Truthy(SignatureOf(cert_data))
  /\ result.signature_valid = PyNone
  /\ Ran("verify_ed25519_signature")

\* the signature member is an object that fails the pinning
Unpinned(signature_obj) ==
  /\ IsDict(signature_obj)
  /\ \/ DictGet(signature_obj, s_alg, PyNone) # PyStr(s_Ed25519)
     \/ DictGet(signature_obj, s_pubkey_id, PyNone) # PyStr(s_sih_root_v1)

\* the verification went no further than the pinning
NoCryptoStep == ~Ran("b64decode") /\ ~Ran("canonicalize_json") /\ ~Ran("verify")

\* C6 as stated: every signature block whose alg is not Ed25519 or whose
\* pubkey_id is not sih_root_v1 is answered false before any decoding,
\* canonicalization or verification.
C6_UnpinnedIsFalse ==
  (Validated /\ (IsBackup \/ IsWipe) /\ Unpinned(SignatureOf(cert_data))) =>
    /\ verify_ed25519_signature(cert_data) = SigOutcome(PyBool(FALSE), "", <<>>)
    /\ result.signature_valid = PyBool(FALSE)
    /\ NoCryptoStep

\* C6 (amended): every non-empty signature block whose alg is not Ed25519 or
\* whose pubkey_id is not sih_root_v1 is answered false before any decoding,
\* canonicalization or verification; the empty block {} is answered null,
\* also without any such step.
C6_NonEmptyUnpinnedIsFalse ==
  (Validated /\ (IsBackup \/ IsWipe) /\ Unpinned(SignatureOf(cert_data))) =>
    /\ NoCryptoStep
    /\ verify_ed25519_signature(cert_data).steps = <<>>
    /\ IF Truthy(SignatureOf(cert_data))
       THEN /\ verify_ed25519_signature(cert_data).ret = PyBool(FALSE)
            /\ result.signature_valid = PyBool(FALSE)
            /\ HasError("Invalid Ed25519 signature")
       ELSE result.signature_valid = PyNone

\* a block with a good sig and the right algorithm under another key id:
\* answered false with no step beyond the pinning
C6_Witness ==
  /\ Validated /\ (IsBackup \/ IsWipe)
  /\ IsDict(SignatureOf(cert_data))
  /\ DictGet(SignatureOf(cert_data), s_alg, PyNone) = PyStr(s_Ed25519)
  /\ DictGet(SignatureOf(cert_data), s_pubkey_id, PyNone) = PyStr(s_other_key)
  /\ Truthy(DictGet(SignatureOf(cert_data), s_sig, PyNone))
  /\ result.signature_valid = PyBool(FALSE)
  /\ NoCryptoStep

\* the signature member is a non-empty object that passes the pinning
Pinned(signature_obj) ==
  /\ IsDict(signature_obj)
  /\ DictGet(signature_obj, s_alg, PyNone) = PyStr(s_Ed25519)
  /\ DictGet(signature_obj, s_pubkey_id, PyNone) = PyStr(s_sih_root_v1)

\* sig is a string that decodes to the signature of the canonical form of
\* the certificate without its signature member, under the portal's key
SigIsGood(cert) ==
  LET sig_b64 == DictGet(SignatureOf(cert), s_sig, PyNone)
  IN  /\ IsStr(sig_b64)
      /\ b64decode(sig_b64).ok
      /\ b64decode(sig_b64).bytes =
           Ed25519Sign(PUBLIC_KEY_BYTES, canonicalize_json(DictDel(cert, s_signature)))

\* C7: for a certificate with a pinned signature block,
\* verify_ed25519_signature never raises and returns true exactly when sig
\* decodes to the signature of the canonical form of the certificate without
\* its signature member; otherwise it returns false.
C7_PinnedVerdict ==
  (Validated /\ IsDict(cert_data) /\ Pinned(SignatureOf(cert_data))) =>
    LET o == verify_ed25519_signature(cert_data)
    IN  /\ o.exc = ""
        /\ o.ret = PyBool(SigIsGood(cert_data))
        /\ (IsBackup \/ IsWipe) =>
             /\ result.signature_valid = PyBool(SigIsGood(cert_data))
             /\ ~HasError("Signature verification error")

\* a pinned block whose sig decodes and is the signature of something else:
\* verified and rejected
C7_Witness ==
  /\ Validated /\ (IsBackup \/ IsWipe)
  /\ Pinned(SignatureOf(cert_data))
  /\ Ran("verify")
  /\ result.signature_valid = PyBool(FALSE)
  /\ op = "sign"

\* an edit of a member other than signature was made to a certificate that
\* had signature_valid = true
TamperedAfterValid ==
  /\ result.signature_valid = PyBool(TRUE)
  /\ op' = "edit"
  /\ IsDict(cert_data')
  /\ SignatureOf(cert_data') = SignatureOf(cert_data)

\* C8 as stated: once signature_valid is true, a change of any member other
\* than signature, the signature block kept, makes signature_valid false.
C8_AnyChangeGivesFalse ==
  [][TamperedAfterValid => result'.signature_valid = PyBool(FALSE)]_vars

\* C8 (amended): once signature_valid is true, a change of any member other
\* than signature, the signature block kept, makes signature_valid false as
\* long as cert_type is still backup or wipe; a change that leaves cert_type
\* missing, falsy or unrecognized makes verify_ed25519_signature return
\* false as well, but validate_certificate does not call it and reports
\* signature_valid = null with schema_valid = false.
C8_ChangeGivesFalseOrNoVerdict ==
  [][TamperedAfterValid =>
       /\ verify_ed25519_signature(cert_data').ret = PyBool(FALSE)
       /\ IF DictGet(cert_data', s_cert_type, PyNone) \in {PyStr(s_backup), PyStr(s_wipe)}
          THEN result'.signature_valid = PyBool(FALSE)
          ELSE /\ result'.signature_valid = PyNone
               /\ result'.schema_valid = FALSE]_vars

\* a nested member of a validly signed certificate was changed and the
\* signature was verified and rejected
C8_Witness ==
  /\ op = "edit" /\ IsBackup
  /\ Pinned(SignatureOf(cert_data))
  /\ IsDict(DictGet(cert_data, s_device, PyNone))
  /\ DictGet(DictGet(cert_data, s_device, PyNone), s_model, PyNone) = PyStr(s_M2)
  /\ Ran("verify")
  /\ result.signature_valid = PyBool(FALSE)

\* two values that differ at most in the order of the members of objects
RECURSIVE SameUpToOrder(_, _)
SameUpToOrder(a, b) ==
  IF a.t # b.t THEN FALSE
  ELSE IF a.t = "dict"
  THEN /\ Len(a.v) = Len(b.v)
       /\ \A i \in 1..Len(a.v) :
            /\ HasKey(b, a.v[i][1])
            /\ SameUpToOrder(a.v[i][2], DictGet(b, a.v[i][1], PyNone))
  ELSE IF a.t = "list"
  THEN /\ Len(a.v) = Len(b.v)
       /\ \A i \in 1..Len(a.v) : SameUpToOrder(a.v[i], b.v[i])
  ELSE a = b

\* C9: two certificates validated one after the other that differ only in
\* the order of object members, at any depth, get the same signature_valid.
C9_OrderInsensitive ==
  [][(Validated /\ Validated' /\ IsDict(cert_data) /\ IsDict(cert_data')
        /\ SameUpToOrder(cert_data, cert_data'))
       => result'.signature_valid = result.signature_valid]_vars

\* a validly signed certificate whose members were put in another order,
\* still found validly signed
C9_Witness ==
  /\ op = "reorder"
  /\ Validated /\ (IsBackup \/ IsWipe)
  /\ CompactDumps(cert_data) # canonicalize_json(cert_data)
  /\ result.signature_valid = PyBool(TRUE)

\* two hex digests are equal when letter case is ignored
SameHexIgnoringCase(a, b) == HexUpper(a) = HexUpper(b)

\* C10: for a backup certificate that declares
\* metadata.certificate_json_sha256, hash_valid is true exactly when the
\* declared value is the hex digest of the raw bytes passed, letter case
\* ignored; and once hash_valid is true, other bytes under the same
\* declared value make it false.
C10_HashOverRawBytes ==
  /\ [](( Validated /\ IsBackup
          /\ IsDict(DictGet(cert_data, s_metadata, PyNone))
          /\ HasKey(DictGet(cert_data, s_metadata, PyNone), s_certificate_json_sha256))
        => ( (result.hash_valid = PyBool(TRUE))
             <=> ( /\ IsStr(DeclaredHash)
                   /\ SameHexIgnoringCase(DeclaredHash.v,
                                          compute_certificate_hash(cert_json_bytes)) ) ))
  /\ [][( /\ result.hash_valid = PyBool(TRUE)
          /\ Validated' /\ IsDict(cert_data')
          /\ DictGet(cert_data', s_cert_type, PyNone) = PyStr(s_backup)
          /\ cert_json_bytes' # cert_json_bytes
          /\ DictGet(cert_data', s_metadata, PyNone) = DictGet(cert_data, s_metadata, PyNone) )
        => result'.hash_valid = PyBool(FALSE)]_vars

\* a backup certificate that declares the digest in upper case, found good
C10_Witness ==
  /\ Validated /\ IsBackup /\ IsStr(DeclaredHash)
  /\ DeclaredHash.v # compute_certificate_hash(cert_json_bytes)
  /\ result.hash_valid = PyBool(TRUE)

\* cert_data.get("metadata", {}) of the certificate
MetadataOf == DictGet(cert_data, s_metadata, PyDict(<<>>))

\* the member metadata.certificate_json_sha256 is there, whatever its value
HashMemberPresent ==
  IsDict(MetadataOf) /\ HasKey(MetadataOf, s_certificate_json_sha256)

\* the declared value is the digest of the bytes, letter case ignored
DeclaredHashMatches ==
  /\ IsStr(DeclaredHash)
  /\ StrLower(DeclaredHash.v) = StrLower(compute_certificate_hash(cert_json_bytes))

\* errors holds the hash-mismatch message with the declared and the computed value
MismatchNamesBoth ==
  \E i \in 1..Len(result.errors) :
    /\ result.errors[i].kind = "Certificate hash mismatch"
    /\ result.errors[i].text =
         <<DeclaredHash.v, compute_certificate_hash(cert_json_bytes)>>

\* C11 as stated: for a backup certificate, hash_valid is null when
\* metadata.certificate_json_sha256 is absent, and when the member is
\* present with any value that does not match the computed digest,
\* hash_valid is false and errors names the declared and the computed value.
C11_PresentMismatchIsFalse ==
  (Validated /\ IsBackup /\ IsDict(MetadataOf)) =>
    /\ ~HashMemberPresent => result.hash_valid = PyNone
    /\ (HashMemberPresent /\ ~DeclaredHashMatches) =>
         /\ result.hash_valid = PyBool(FALSE)
         /\ IsStr(DeclaredHash) /\ MismatchNamesBoth

\* C11: for a backup certificate whose metadata is an object (or absent):
\* when certificate_json_sha256 is absent or falsy (null, "", 0) the
\* comparison is skipped, hash_valid is null and no hash message is added;
\* when it is a non-empty string that does not match the computed digest,
\* hash_valid is false and errors holds the mismatch message naming the
\* declared and the computed value; when it is truthy and not a string the
\* comparison raises, hash_valid stays null and errors holds the
\* unexpected-error message instead.
C11_HashSkippedOrMismatch ==
  (Validated /\ IsBackup /\ IsDict(MetadataOf)) =>
    /\ ~Truthy(DeclaredHash) =>
         /\ result.hash_valid = PyNone
         /\ ~Ran("hash_compare")
         /\ ~HasError("Certificate hash mismatch")
    /\ (Truthy(DeclaredHash) /\ IsStr(DeclaredHash) /\ ~DeclaredHashMatches) =>
         /\ result.hash_valid = PyBool(FALSE)
         /\ MismatchNamesBoth
    /\ (Truthy(DeclaredHash) /\ ~IsStr(DeclaredHash)) =>
         /\ result.hash_valid = PyNone
         /\ ~HasError("Certificate hash mismatch")
         /\ HasError("Unexpected error during validation")

\* a backup certificate whose declared hash is a string that differs from
\* the digest of the bytes, answered false with the message naming both
C11_Witness ==
  /\ Validated /\ IsBackup /\ IsDict(MetadataOf)
  /\ Truthy(DeclaredHash) /\ IsStr(DeclaredHash) /\ ~DeclaredHashMatches
  /\ result.hash_valid = PyBool(FALSE)
  /\ MismatchNamesBoth

\* cert_data.get("linkage", {}) of the certificate
LinkageOf == DictGet(cert_data, s_linkage, PyDict(<<>>))

\* linkage.backup_cert_id of the certificate (PyNone: no reference)
BackupCertIdOf ==
  IF IsDict(cert_data) /\ IsDict(LinkageOf)
  THEN DictGet(LinkageOf, s_backup_cert_id, PyNone)
  ELSE PyNone

\* a linked certificate was passed and meets the backup schema
LinkedSchemaValid ==
  Truthy(linked_backup_cert) /\ validate(linked_backup_cert, BACKUP_SCHEMA) = <<>>

NoLinkageMember ==
  \/ ~HasKey(cert_data, s_linkage)
  \/ IsDict(LinkageOf) /\ ~HasKey(LinkageOf, s_backup_cert_id)

\* C13 as stated: chain_valid is null whenever no linked certificate was
\* passed, or the wipe certificate declares no linkage.backup_cert_id,
\* whatever the linked certificate passed holds.
C13_NullWhateverLinked ==
  Validated =>
    /\ linked_backup_cert = PyNone => result.chain_valid = PyNone
    /\ (IsWipe /\ NoLinkageMember) => result.chain_valid = PyNone

\* C13: chain_valid is null whenever no linked certificate was passed (None
\* or an empty one); for a wipe certificate whose linkage is absent or an
\* object with no, or a falsy, backup_cert_id it is null when the linked
\* certificate passed meets the backup schema, with no chain message; when
\* the linked certificate passed does not meet the backup schema,
\* chain_valid is false with the linked-schema message, a reference declared
\* or not.
C13_NullWithoutLinkedOrReference ==
  Validated =>
    /\ ~Truthy(linked_backup_cert) => result.chain_valid = PyNone
    /\ (IsWipe /\ IsDict(LinkageOf) /\ ~Truthy(BackupCertIdOf) /\ LinkedSchemaValid) =>
         /\ result.chain_valid = PyNone
         /\ Ran("validate_chain_linkage")
         /\ ~HasError("Chain linkage validation failed: backup_cert_id mismatch")
         /\ ~HasError("Chain validation error")
    /\ (IsWipe /\ Truthy(linked_backup_cert) /\ ~LinkedSchemaValid) =>
         /\ result.chain_valid = PyBool(FALSE)
         /\ HasError("Linked backup certificate schema error")

\* a wipe certificate without a reference, passed with a linked certificate
\* that meets the backup schema, answered null
C13_Witness ==
  /\ Validated /\ IsWipe /\ NoLinkageMember /\ LinkedSchemaValid
  /\ result.chain_valid = PyNone
  /\ Ran("validate_chain_linkage")

\* the position of the step in the steps of the call (0: not entered)
StepIndex(step) ==
  IF Ran(step) THEN CHOOSE i \in 1..Len(result.steps) : result.steps[i] = step
  ELSE 0

CompactDigestOfLinked ==
  PyStr(compute_certificate_hash(CompactDumps(linked_backup_cert)))

\* C15 as stated: whenever a linked certificate is passed with a wipe
\* certificate, computed.linked_backup_sha256 is the digest of its compact
\* serialization, chain_valid being true, false or null.
C15_LinkedDigestAlways ==
  (Validated /\ IsWipe /\ Truthy(linked_backup_cert)) =>
    result.computed.linked_backup_sha256 = CompactDigestOfLinked

\* C15: whenever a linked certificate that meets the backup schema is
\* passed with a wipe certificate, computed.linked_backup_sha256 is the
\* digest of its compact serialization, chain_valid being true, false or
\* null; when the linked certificate does not meet the backup schema, or
\* none is passed, or the certificate is not a wipe certificate,
\* computed.linked_backup_sha256 is null.
C15_LinkedDigestWhenSchemaValid ==
  Validated =>
    result.computed.linked_backup_sha256 =
      IF IsWipe /\ LinkedSchemaValid THEN CompactDigestOfLinked ELSE PyNone

\* a wipe certificate with a schema-valid linked certificate of another
\* cert_id: chain_valid is false and the digest is reported
C15_Witness ==
  /\ Validated /\ IsWipe /\ LinkedSchemaValid
  /\ result.chain_valid = PyBool(FALSE)
  /\ result.computed.linked_backup_sha256 = CompactDigestOfLinked

\* C16: in every result hash_valid is non-null only for a certificate whose
\* cert_type is backup and chain_valid is non-null only for one whose
\* cert_type is wipe, so the two are never both non-null: a wipe
\* certificate that declares metadata.certificate_json_sha256 has hash_valid
\* null and a backup certificate passed with a linked certificate has
\* chain_valid null.
C16_KindApplicability ==
  /\ result.hash_valid # PyNone => (Validated /\ IsBackup)
  /\ result.chain_valid # PyNone => (Validated /\ IsWipe)
  /\ result.hash_valid = PyNone \/ result.chain_valid = PyNone
  /\ (Validated /\ IsWipe) => (result.hash_valid = PyNone /\ ~Ran("hash_check"))
  /\ (Validated /\ IsBackup) =>
       /\ result.chain_valid = PyNone
       /\ ~Ran("validate_linked")
       /\ result.computed.linked_backup_sha256 = PyNone

\* a wipe certificate that declares the digest of its bytes and is passed
\* with a linked certificate: the chain has a verdict, the hash has none
C16_Witness ==
  /\ Validated /\ IsWipe
  /\ IsStr(DeclaredHash) /\ Truthy(DeclaredHash)
  /\ Truthy(linked_backup_cert)
  /\ result.chain_valid # PyNone
  /\ result.hash_valid = PyNone

\* the entries of errors appended by the signature check (lines 318-325)
SignatureMessages ==
  { i \in 1..Len(result.errors) :
      result.errors[i].kind \in {"Invalid Ed25519 signature",
                                 "Signature verification error"} }

\* C17: the signature check leaves exactly one message in errors when
\* signature_valid is false and none when it is null or true; for a
\* signature block (an object) that message is 'Invalid Ed25519 signature',
\* the same whether the algorithm or key id is wrong, the signature does
\* not decode or it does not verify.
C17_OneSignatureMessage ==
  /\ Cardinality(SignatureMessages) =
       IF result.signature_valid = PyBool(FALSE) THEN 1 ELSE 0
  /\ ( /\ result.signature_valid = PyBool(FALSE)
       /\ IsDict(cert_data) /\ IsDict(SignatureOf(cert_data)) )
     => \A i \in SignatureMessages :
          result.errors[i] = Err("Invalid Ed25519 signature", <<>>)

\* a pinned signature block whose sig does not decode: signature_valid is
\* false, with the one advisory message
C17_Witness ==
  /\ Validated /\ IsDict(cert_data) /\ IsDict(SignatureOf(cert_data))
  /\ Pinned(SignatureOf(cert_data))
  /\ Ran("b64decode") /\ ~Ran("verify")
  /\ result.signature_valid = PyBool(FALSE)
  /\ Cardinality(SignatureMessages) = 1

\* the certificate meets the schema its cert_type names
MeetsOwnSchema ==
  \/ IsBackup /\ validate(cert_data, BACKUP_SCHEMA) = <<>>
  \/ IsWipe /\ validate(cert_data, WIPE_SCHEMA) = <<>>

\* C18: schema_valid is true exactly when cert_type is backup or wipe and
\* the certificate meets the schema of that cert_type (the backup schema
\* for backup, the wipe schema for wipe); whenever schema_valid is false,
\* errors is not empty.
C18_SchemaVerdict ==
  Validated =>
    /\ result.schema_valid <=> MeetsOwnSchema
    /\ ~result.schema_valid => result.errors # <<>>

\* a wipe certificate found schema-valid: its metadata member is not an
\* object, which the wipe schema allows and the backup schema does not
C18_Witness ==
  /\ Validated /\ IsWipe
  /\ HasKey(cert_data, s_metadata) /\ ~IsDict(MetadataOf)
  /\ validate(cert_data, WIPE_SCHEMA) = <<>>
  /\ validate(cert_data, BACKUP_SCHEMA) # <<>>
  /\ result.schema_valid

\* the body of the last request is not a JSON text: it is not UTF-8, or
\* the decoder finds no JSON value in it
BodyNotJson == ~Utf8Decodes(cert_json_bytes) \/ ~json_loads(cert_json_bytes).ok

\* C19: when the body of a POST /verify request is empty or is not valid
\* JSON, the request is answered 400 ('Empty request body' / 'Invalid
\* JSON: ...') and no check of validate_certificate is entered.
C19_MalformedBodyIs400 ==
  (op = "post" /\ (cert_json_bytes = <<>> \/ BodyNotJson)) =>
    /\ http_status = 400
    /\ result.exc = IF cert_json_bytes = <<>> THEN "Empty request body"
                    ELSE "JSONDecodeError"
    /\ result.steps = <<>>
    /\ NoVerdicts

\* ------------------------------------------- canonicalize_json on its own

s_a == <<"a">>
s_b == <<"b">>
s_ab == <<"a", "b">>
s_z_field == <<"z", "_", "f", "i", "e", "l", "d">>
s_a_field == <<"a", "_", "f", "i", "e", "l", "d">>
s_nested == <<"n", "e", "s", "t", "e", "d">>
s_first == <<"f", "i", "r", "s", "t">>
s_second == <<"s", "e", "c", "o", "n", "d">>
s_value == <<"v", "a", "l", "u", "e">>

\* {"b":1,"a":2}
ObjectBA == PyDict(<< <<s_b, PyInt(1)>>, <<s_a, PyInt(2)>> >>)

\* obj1 of test_canonicalize_deterministic
TestObject ==
  PyDict(<< <<s_z_field, PyStr(s_value)>>,
            <<s_a_field, PyInt(42)>>,
            <<s_nested, PyDict(<< <<s_second, PyInt(2)>>, <<s_first, PyInt(1)>> >>)>> >>)

\* the values canonicalize_json is applied to: objects within objects and
\* lists, keys that are prefixes of one another, keys of digits, of upper and
\* lower case and with characters json.dumps escapes, the empty key
CanonValues ==
  { ObjectBA,
    TestObject,
    PyDict(<< <<s_ab, PyInt(1)>>,
              <<s_a, PyDict(<< <<s_b, PyList(<<ObjectBA>>)>>, <<s_a, PyNone>> >>)>>,
              <<s_b, PyBool(TRUE)>> >>),
    PyList(<<ObjectBA, PyDict(Reverse(ObjectBA.v)), PyInt(-3)>>),
    PyDict(<< <<s_x, PyDict(<< <<s_x, ObjectBA>>, <<s_a, PyStr(s_x)>> >>)>>,
              <<s_a, PyList(<<PyInt(1), PyInt(2)>>)>> >>),
    PyDict(<< <<<<"B">>, PyInt(1)>>, <<s_a, PyInt(2)>>,
              <<<<"A">>, PyInt(3)>>, <<<<"_">>, PyNaN>> >>),
    PyDict(<< <<<<"1", "0">>, PyInt(1)>>, <<<<"9">>, PyInt(2)>>,
              <<<<"1">>, PyInt(3)>>, <<<<>>, PyInt(4)>> >>),
    PyDict(<< <<<<"a", "\"", "b">>, PyInt(1)>>,
              <<s_a, PyStr(<<"q", "\\", "\n">>)>>,
              <<s_b, PyList(<<PyInt(2), ObjectBA, PyInt(1)>>)>>,
              <<<<"a", " ", "b">>, PyInt(2)>> >>),
    PyDict(<<>>),
    PyInt(7),
    PyStr(s_x) }

\* the permutations of 1..n
IndexPermutations(n) ==
  { p \in [1..n -> 1..n] : \A i, j \in 1..n : p[i] = p[j] => i = j }

\* every value that differs from x at most in the order of the members of
\* its objects, at any depth
RECURSIVE Reorderings(_)
Reorderings(x) ==
  IF x.t \notin {"dict", "list"} \/ x.v = <<>> THEN {x}
  ELSE
    LET n == Len(x.v)
        subs == [i \in 1..n |->
                   Reorderings(IF x.t = "dict" THEN x.v[i][2] ELSE x.v[i])]
        choices == { f \in [1..n -> UNION {subs[i] : i \in 1..n}] :
                       \A i \in 1..n : f[i] \in subs[i] }
    IN  IF x.t = "list" THEN { PyList(f) : f \in choices }
        ELSE { PyDict([i \in 1..n |-> <<x.v[p[i]][1], f[p[i]]>>]) :
                 p \in IndexPermutations(n), f \in choices }

\* canonicalize_json(cert_data) is kept in cert_json_bytes
Canonicalize(value, name) ==
  /\ cert_data' = value
  /\ cert_json_bytes' = canonicalize_json(value)
  /\ op' = name
  /\ UNCHANGED <<linked_backup_cert, result, http_status, edits, request_data>>
  /\ UNCHANGED service_vars

CanonInit ==
  /\ cert_data \in CanonValues
  /\ cert_json_bytes = canonicalize_json(cert_data)
  /\ linked_backup_cert = PyNone
  /\ result = InitialResult(<<>>)
  /\ http_status = 0
  /\ op = "canonicalize"
  /\ edits = 0
  /\ request_data = PyNone
  /\ ServiceUp

\* the same value with its members in another order
CanonicalizeReordered ==
  \E v \in Reorderings(cert_data) \ {cert_data} : Canonicalize(v, "reorder")

\* another value
CanonicalizeOther ==
  \E v \in CanonValues :
    /\ ~SameUpToOrder(v, cert_data)
    /\ Canonicalize(v, "canonicalize")

CanonNext ==
  \/ CanonicalizeReordered
  \/ CanonicalizeOther

CanonSpec == CanonInit /\ [][CanonNext]_vars

\* the bytes {"a":2,"b":1}
CanonicalBA ==
  <<"{", "\"", "a", "\"", ":", "2", ",", "\"", "b", "\"", ":", "1", "}">>

\* C20: two JSON values that differ at most in the order of object members,
\* at any depth, have the same canonicalize_json bytes; {"b":1,"a":2} and
\* {"a":2,"b":1} both give the bytes {"a":2,"b":1}.
C20_CanonicalizationDeterministic ==
  /\ [][SameUpToOrder(cert_data, cert_data') => cert_json_bytes' = cert_json_bytes]_vars
  /\ [](SameUpToOrder(cert_data, ObjectBA) => cert_json_bytes = CanonicalBA)

\* {"a":2,"b":1}, reached from {"b":1,"a":2} by reordering, with the bytes
\* {"a":2,"b":1}
C20_Witness ==
  /\ op = "reorder"
  /\ cert_data = PyDict(Reverse(ObjectBA.v))
  /\ cert_json_bytes = CanonicalBA

\* the number of backslashes that end right before position i of the bytes
BackslashesBefore(bytes, i) ==
  LET run == { k \in 0..(i - 1) : \A j \in (i - k)..(i - 1) : bytes[j] = "\\" }
  IN  CHOOSE k \in run : \A m \in run : m <= k

\* position i holds a quotation mark that opens or closes a string literal
IsStringQuote(bytes, i) ==
  bytes[i] = "\"" /\ BackslashesBefore(bytes, i) % 2 = 0

\* position i lies between the quotation marks of a string literal
InsideString(bytes, i) ==
  /\ ~IsStringQuote(bytes, i)
  /\ Cardinality({ j \in 1..(i - 1) : IsStringQuote(bytes, j) }) % 2 = 1

\* the members of every object of the value, at every depth, are in
\* strictly ascending key order
RECURSIVE KeysAscending(_)
KeysAscending(x) ==
  CASE x.t = "dict" ->
         /\ \A i \in 1..(Len(x.v) - 1) : StrLess(x.v[i][1], x.v[i + 1][1])
         /\ \A i \in 1..Len(x.v) : KeysAscending(x.v[i][2])
    [] x.t = "list" -> \A i \in 1..Len(x.v) : KeysAscending(x.v[i])
    [] OTHER -> TRUE

\* C21: the bytes canonicalize_json gives are a JSON text of the value in
\* which the members of every object, at every depth, are listed in
\* ascending key order and the elements of every array in their original
\* order, with ':' and ',' as the only separators and no space, tab or
\* newline outside string literals.
C21_CanonicalForm ==
  LET parsed == json_loads(cert_json_bytes)
  IN  /\ parsed.ok
      /\ KeysAscending(parsed.val)
      /\ SameUpToOrder(parsed.val, cert_data)
      /\ cert_json_bytes = CompactDumps(parsed.val)
      /\ \A i \in 1..Len(cert_json_bytes) :
           cert_json_bytes[i] \in {" ", "\t", "\n"} => InsideString(cert_json_bytes, i)

\* a value with objects inside a list inside an object, its members out of
\* order, whose canonical bytes hold a space inside a key and nowhere else
C21_Witness ==
  /\ op = "reorder"
  /\ IsDict(cert_data) /\ ~KeysAscending(cert_data)
  /\ \E i \in 1..Len(cert_json_bytes) : cert_json_bytes[i] = " "
  /\ \E i \in 1..Len(cert_json_bytes) : cert_json_bytes[i] = "["

\* C23: verification leaves its arguments as they were.  After a direct call
\* the caller's certificate and linked certificate give the same result when
\* passed again, and a certificate whose signature was verified still has its
\* `signature` member; after POST /verify the parsed request is still what
\* the body parses to, `linked_backup_cert` included, while the certificate
\* validated is the request without that member and the linked certificate
\* is the value of that member.
C23_ArgumentsUnchanged ==
  /\ http_status = 0 =>
       /\ result = validate_certificate(cert_data, cert_json_bytes, linked_backup_cert)
       /\ Ran("canonicalize_json") => HasKey(cert_data, s_signature)
       /\ request_data = PyNone
  /\ http_status = 200 =>
       /\ request_data = json_loads(cert_json_bytes).val
       /\ cert_data = PopLinked(request_data).cert_data
       /\ linked_backup_cert = PopLinked(request_data).linked_backup_cert
       /\ Ran("canonicalize_json") => HasKey(cert_data, s_signature)
       /\ (IsDict(request_data) /\ linked_backup_cert # PyNone) =>
            /\ HasKey(request_data, s_linked_backup_cert)
            /\ ~HasKey(cert_data, s_linked_backup_cert)

\* POST /verify of a signed wipe certificate with a linked certificate
\* embedded: the signature was verified and the linked certificate validated
C23_Witness ==
  /\ http_status = 200
  /\ IsWipe
  /\ Ran("verify") /\ Ran("validate_chain_linkage")
  /\ HasKey(request_data, s_linked_backup_cert)
  /\ HasKey(cert_data, s_signature)

\* the number of messages of the kind in the errors list
ErrorCount(kind) ==
  Cardinality({ i \in 1..Len(result.errors) : result.errors[i].kind = kind })

\* every violation of the selected schema by the certificate validated
SchemaViolations == IterErrors(cert_data, SelectSchema(CertType), <<>>)

\* C25 as stated: a certificate that violates the selected schema in several
\* places has more than one violation reported in the result.
C25_SeveralViolationsReported ==
  (Validated /\ Ran("validate") /\ Len(SchemaViolations) >= 2)
    => ErrorCount("Schema validation error") >= 2

\* C25: of the violations of the selected schema, however many, exactly one
\* is reported: the result of a schema-invalid certificate holds one "Schema
\* validation error" message, for the violation validate raises (the first
\* of those nearest the root), and at most one "At path" message, placed
\* right after it; a schema-valid certificate has neither.
C25_OneViolationReported ==
  (Validated /\ Ran("validate")) =>
    /\ result.schema_valid <=> SchemaViolations = <<>>
    /\ result.schema_valid =>
         ErrorCount("Schema validation error") = 0 /\ ErrorCount("At path") = 0
    /\ ~result.schema_valid =>
         LET best == BestMatch(SchemaViolations)
         IN  /\ ErrorCount("Schema validation error") = 1
             /\ result.errors[1] = Err("Schema validation error",
                                       <<best.keyword, best.subject>>)
             /\ ErrorCount("At path") = (IF best.path = <<>> THEN 0 ELSE 1)
             /\ best.path # <<>> => result.errors[2] = Err("At path", best.path)

\* a certificate with several violations of its schema, one of them reported
C25_Witness ==
  /\ Validated /\ Ran("validate")
  /\ Len(SchemaViolations) >= 2
  /\ ErrorCount("Schema validation error") = 1

\* the value holds the float nan, at any depth
RECURSIVE ContainsNaN(_)
ContainsNaN(x) ==
  CASE x.t = "dict" -> \E i \in 1..Len(x.v) : ContainsNaN(x.v[i][2])
    [] x.t = "list" -> \E i \in 1..Len(x.v) : ContainsNaN(x.v[i])
    [] OTHER -> x = PyNaN

\* C26: canonicalize_json produces no bytes for a value that holds NaN, and
\* produces bytes for every other value.
C26_NaNIsRejected ==
  IF ContainsNaN(cert_data) THEN cert_json_bytes = <<>>
  ELSE cert_json_bytes # <<>>

\* C27: in every result of validate_certificate a negative verdict comes
\* with a message: when schema_valid is false, or signature_valid,
\* hash_valid or chain_valid is false, errors is not empty, and it holds a
\* message of the check that gave the verdict.
C27_NegativeVerdictExplained ==
  Validated =>
    /\ ( \/ ~result.schema_valid
         \/ result.signature_valid = PyBool(FALSE)
         \/ result.hash_valid = PyBool(FALSE)
         \/ result.chain_valid = PyBool(FALSE) ) => result.errors # <<>>
    /\ ~result.schema_valid =>
         \/ HasError("Missing 'cert_type' field")
         \/ HasError("Unknown certificate type")
         \/ HasError("Schema validation error")
         \/ HasError("Unexpected error during validation")
    /\ result.signature_valid = PyBool(FALSE) =>
         \/ HasError("Invalid Ed25519 signature")
         \/ HasError("Signature verification error")
    /\ result.hash_valid = PyBool(FALSE) => HasError("Certificate hash mismatch")
    /\ result.chain_valid = PyBool(FALSE) =>
         \/ HasError("Linked backup certificate schema error")
         \/ HasError("Chain validation error")
         \/ HasError("Chain linkage validation failed: backup_cert_id mismatch")

\* a schema-valid certificate whose only negative verdict is the signature's
C27_Witness ==
  /\ Validated
  /\ result.schema_valid
  /\ result.signature_valid = PyBool(FALSE)
  /\ result.hash_valid # PyBool(FALSE) /\ result.chain_valid # PyBool(FALSE)
  /\ Len(result.errors) = 1

\* the place, in the order of the checks, of the check that writes messages
\* of the kind
CheckRank(kind) ==
  CASE kind \in {"Missing 'cert_type' field", "Unknown certificate type",
                 "Schema validation error", "At path"} -> 1
    [] kind \in {"Invalid Ed25519 signature", "Signature verification error"} -> 2
    [] kind = "Certificate hash mismatch" -> 3
    [] kind \in {"Linked backup certificate schema error", "Chain validation error",
                 "Chain linkage validation failed: backup_cert_id mismatch"} -> 4
    [] kind = "Unexpected error during validation" -> 5

\* C28: the errors list is in the order of the checks: every schema message
\* comes before every signature message, which comes before the hash
\* mismatch message, which comes before every chain message; an "Unexpected
\* error during validation" message, when there is one, is the last.
C28_ErrorsInCheckOrder ==
  Validated =>
    /\ \A i, j \in 1..Len(result.errors) :
         i < j => CheckRank(result.errors[i].kind) <= CheckRank(result.errors[j].kind)
    /\ \A i \in 1..Len(result.errors) :
         result.errors[i].kind = "Unexpected error during validation"
           => i = Len(result.errors)

\* a result with a schema message, then a signature message, then the hash
\* mismatch message
C28_Witness ==
  /\ Validated
  /\ \E i, j, k \in 1..Len(result.errors) :
       /\ i < j /\ j < k
       /\ result.errors[i].kind = "Schema validation error"
       /\ result.errors[j].kind = "Invalid Ed25519 signature"
       /\ result.errors[k].kind = "Certificate hash mismatch"

\* C29: in every result, those returned for a missing or unknown cert_type
\* included, computed.certificate_json_sha256 is the hex digest of the raw
\* bytes passed in (64 hex digits in the program, never null), and
\* computed.linked_backup_sha256 is non-null only for a wipe certificate
\* passed with a linked certificate that meets the backup schema.
C29_ComputedDigests ==
  Validated =>
    /\ result.computed.certificate_json_sha256 = compute_certificate_hash(cert_json_bytes)
    /\ result.computed.certificate_json_sha256 # <<>>
    /\ \A i \in 1..Len(result.computed.certificate_json_sha256) :
         \E k \in 1..Len(HexDigits) :
           result.computed.certificate_json_sha256[i] = HexDigits[k]
    /\ result.computed.linked_backup_sha256 # PyNone =>
         /\ IsWipe
         /\ Truthy(linked_backup_cert)
         /\ LinkedSchemaValid
         /\ IsStr(result.computed.linked_backup_sha256)

\* POST /verify of a body whose cert_type names no schema: the result is
\* returned before any check and holds the digest of the body
C29_Witness ==
  /\ http_status = 200
  /\ NoVerdicts
  /\ HasError("Unknown certificate type")
  /\ result.steps = <<>>
  /\ result.computed.certificate_json_sha256 = compute_certificate_hash(cert_json_bytes)
  /\ result.computed.linked_backup_sha256 = PyNone

\* the last request had a top-level `linked_backup_cert` member
LinkedEmbedded ==
  /\ http_status = 200
  /\ IsDict(request_data)
  /\ HasKey(request_data, s_linked_backup_cert)

\* the response to the last request sent again without its
\* `linked_backup_cert` member (serialized compactly)
ResponseWithoutLinked ==
  verify_certificate(CompactDumps(DictDel(request_data, s_linked_backup_cert)))

\* C30: for a POST /verify whose body has a top-level `linked_backup_cert`
\* member, the certificate checked is the request without the member:
\* schema_valid and signature_valid are those of the request sent without
\* it, while computed.certificate_json_sha256 is the digest of the whole
\* body received, the embedded certificate included, so it is not the digest
\* of the request sent without the member; hash_valid, when not null,
\* compares the declared hash with the digest of the whole body.
C30_LinkedStrippedBeforeChecks ==
  LinkedEmbedded =>
    \E alone \in {ResponseWithoutLinked} :
      /\ alone.status = 200
      /\ ~HasKey(cert_data, s_linked_backup_cert)
      /\ cert_data = alone.cert_data
      /\ result.schema_valid = alone.result.schema_valid
      /\ result.signature_valid = alone.result.signature_valid
      /\ result.computed.certificate_json_sha256 = compute_certificate_hash(cert_json_bytes)
      /\ result.computed.certificate_json_sha256
           # alone.result.computed.certificate_json_sha256
      /\ result.hash_valid # PyNone =>
           result.hash_valid =
             PyBool(StrLower(DeclaredHash.v)
                      = StrLower(compute_certificate_hash(cert_json_bytes)))

\* a signed wipe certificate posted with the linked certificate embedded:
\* schema_valid and signature_valid are true
C30_Witness ==
  /\ LinkedEmbedded
  /\ IsWipe
  /\ result.schema_valid
  /\ result.signature_valid = PyBool(TRUE)
  /\ Truthy(linked_backup_cert)

\* ------------------------------------- module start-up and requests at once

\* the states a file read at start-up may be in
SchemaFileStates == {"present", "missing", "malformed"}
KeyFileStates == {"ed25519", "missing", "malformed", "other_algorithm"}

\* lines 85-104, load_schemas: the globals afterwards and the exception raised
\* ("" when it returned).  The backup schema is bound before the wipe schema
\* file is opened.
load_schemas(globals, backup_file, wipe_file) ==
  IF backup_file # "present"
  THEN [globals |-> globals, raised |-> "RuntimeError"]
  ELSE IF wipe_file # "present"
  THEN [globals |-> [globals EXCEPT !.BACKUP_SCHEMA = <<BACKUP_SCHEMA>>],
        raised |-> "RuntimeError"]
  ELSE [globals |-> [globals EXCEPT !.BACKUP_SCHEMA = <<BACKUP_SCHEMA>>,
                                    !.WIPE_SCHEMA = <<WIPE_SCHEMA>>],
        raised |-> ""]

\* load_public_key as it would be if a failure were passed over in silence
LoadPublicKeyOrPass(globals, key_file) ==
  IF key_file = "ed25519"
  THEN [globals |-> [globals EXCEPT !.PUBLIC_KEY_BYTES = <<PUBLIC_KEY_BYTES>>],
        raised |-> ""]
  ELSE [globals |-> globals, raised |-> ""]

\* lines 49-82, load_public_key: a file that is missing, is no PEM public key
\* or holds a key of another algorithm raises RuntimeError
load_public_key(globals, key_file) ==
  IF key_file = "ed25519"
  THEN [globals |-> [globals EXCEPT !.PUBLIC_KEY_BYTES = <<PUBLIC_KEY_BYTES>>],
        raised |-> ""]
  ELSE [globals |-> globals, raised |-> "RuntimeError"]

\* line 137: load_schemas() in the module body; an exception ends the import
LoadSchemas ==
  /\ startup = "import"
  /\ \E backup_file \in SchemaFileStates, wipe_file \in SchemaFileStates :
       \E o \in {load_schemas(module_globals, backup_file, wipe_file)} :
         /\ module_globals' = o.globals
         /\ startup' = IF o.raised = "" THEN "schemas_loaded" ELSE "aborted"
  /\ UNCHANGED <<cert_data, cert_json_bytes, linked_backup_cert, result, http_status,
                 op, edits, request_data, invocations>>

\* line 138: load_public_key() in the module body; when it returns the
\* module is imported and the application can be served
LoadPublicKey ==
  /\ startup = "schemas_loaded"
  /\ \E key_file \in KeyFileStates :
       \E o \in {load_public_key(module_globals, key_file)} :
         /\ module_globals' = o.globals
         /\ startup' = IF o.raised = "" THEN "serving" ELSE "aborted"
  /\ UNCHANGED <<cert_data, cert_json_bytes, linked_backup_cert, result, http_status,
                 op, edits, request_data, invocations>>

\* the bodies posted while other requests are in progress: a backup
\* certificate, a wipe certificate with its backup certificate embedded, a
\* body that is not JSON and an object without cert_type
ServiceBodies ==
  { CompactDumps(BackupCert),
    CompactDumps(DictSet(WipeCert, s_linked_backup_cert, BackupCert)),
    <<"{">>,
    <<"{", "}">> }

\* the slot's part of the state changes, nothing else does
SlotStep(p, slot, globals) ==
  /\ invocations' = [invocations EXCEPT ![p] = slot]
  /\ module_globals' = globals
  /\ UNCHANGED <<cert_data, cert_json_bytes, linked_backup_cert, result, http_status,
                 op, edits, request_data, startup>>

\* line 498: `await request.body()` returns the bytes of a request
ReceiveBody ==
  \E p \in Invocations :
    /\ startup = "serving"
    /\ invocations[p].pc = "idle"
    /\ \E body \in ServiceBodies :
         SlotStep(p, [Idle EXCEPT !.pc = "received", !.body = body], module_globals)

\* SchemaGlobalsAfterSelect as it would be if the schema selected were kept
\* in the module global BACKUP_SCHEMA
SchemaKeptInGlobal(globals, cert_type) ==
  [globals EXCEPT !.BACKUP_SCHEMA =
     IF cert_type = PyStr(s_backup) THEN globals.BACKUP_SCHEMA ELSE globals.WIPE_SCHEMA]

\* lines 293-296: `schema = BACKUP_SCHEMA` and `schema = WIPE_SCHEMA` bind a
\* local name; the module globals afterwards
SchemaGlobalsAfterSelect(globals, cert_type) == globals

\* lines 293-296: the value bound to the local name schema
ReadSchema(globals, cert_type) ==
  IF cert_type = PyStr(s_backup) THEN globals.BACKUP_SCHEMA ELSE globals.WIPE_SCHEMA

\* lines 499-516 and 266-296: the body is parsed, the certificate extracted
\* and, in validate_certificate, the schema selected.  A request that ends before
\* the selection (an HTTPException, a missing or unknown cert_type, a
\* certificate that is no dict) reads no global and is answered.
SelectSchemaStep ==
  \E p \in Invocations :
    /\ invocations[p].pc = "received"
    /\ \E alone \in {verify_certificate(invocations[p].body)} :
         IF alone.status # 200 \/ alone.result.steps = <<>>
         THEN SlotStep(p, [invocations[p] EXCEPT !.pc = "done", !.response = alone],
                       module_globals)
         ELSE
           LET cert_type == DictGet(alone.cert_data, s_cert_type, PyNone)
           IN  SlotStep(p,
                        [invocations[p] EXCEPT
                           !.pc = "selected",
                           !.schema = ReadSchema(module_globals, cert_type),
                           !.result = InitialResult(invocations[p].body)],
                        SchemaGlobalsAfterSelect(module_globals, cert_type))

\* lines 309-316 with the value read for schema: validate(instance, None)
\* raises a TypeError, which is no ValidationError
SchemaCheckGiven(r, cert, schema) ==
  IF schema = Unset
  THEN [r EXCEPT !.steps = Append(@, "validate"), !.exc = "TypeError"]
  ELSE SchemaCheck(r, cert, schema[1])

\* lines 318-325 with the value read for PUBLIC_KEY_BYTES: VerifyKey(None)
\* raises inside the try block of verify_ed25519_signature, which returns False
SignatureCheckGiven(r, cert, key) ==
  IF r.exc # "" THEN r
  ELSE
    LET r2 == SignatureCheck(r, cert)
    IN  IF key = Unset /\ r2.signature_valid = PyBool(TRUE)
        THEN [r2 EXCEPT !.signature_valid = PyBool(FALSE),
                        !.errors = Append(@, Err("Invalid Ed25519 signature", <<>>))]
        ELSE r2

\* lines 337-357 with the value read for BACKUP_SCHEMA: validate(instance,
\* None) raises a TypeError, caught by the clause of line 354
ChainCheckGiven(r, cert, cert_type, linked, backup) ==
  IF backup # Unset THEN ChainCheck(r, cert, cert_type, linked)
  ELSE IF r.exc # "" \/ cert_type # PyStr(s_wipe) \/ ~Truthy(linked) THEN r
  ELSE [r EXCEPT !.steps = Append(@, "validate_linked"),
                 !.chain_valid = PyBool(FALSE),
                 !.errors = Append(@, Err("Chain validation error", <<"TypeError">>))]

\* lines 309-325: the schema check, then the signature check, which reads
\* PUBLIC_KEY_BYTES
SchemaAndSignatureStep ==
  \E p \in Invocations :
    /\ invocations[p].pc = "selected"
    /\ \E alone \in {verify_certificate(invocations[p].body)} :
         LET r1 == SchemaCheckGiven(invocations[p].result, alone.cert_data,
                                    invocations[p].schema)
             r2 == SignatureCheckGiven(r1, alone.cert_data,
                                       module_globals.PUBLIC_KEY_BYTES)
         IN  SlotStep(p, [invocations[p] EXCEPT !.pc = "signed", !.result = r2],
                      module_globals)

\* lines 327-373 and 520: the hash check, the chain check, which reads
\* BACKUP_SCHEMA, the summary, and the return of the result
HashAndChainStep ==
  \E p \in Invocations :
    /\ invocations[p].pc = "signed"
    /\ \E alone \in {verify_certificate(invocations[p].body)} :
         LET cert == alone.cert_data
             cert_type == DictGet(cert, s_cert_type, PyNone)
             r2 == invocations[p].result
             r3 == IF r2.exc # "" THEN r2 ELSE HashCheck(r2, cert, cert_type)
             r4 == ChainCheckGiven(r3, cert, cert_type, alone.linked_backup_cert,
                                   module_globals.BACKUP_SCHEMA)
             r5 == OuterExcept(SummaryStep(r4, cert))
         IN  SlotStep(p,
                      [invocations[p] EXCEPT !.pc = "done", !.result = r5,
                                             !.response = [alone EXCEPT !.result = r5]],
                      module_globals)

\* lines 547-555: health_check
health_check(globals) ==
  [status |-> "healthy",
   schemas_loaded |-> globals.BACKUP_SCHEMA # Unset /\ globals.WIPE_SCHEMA # Unset,
   public_key_loaded |-> globals.PUBLIC_KEY_BYTES # Unset]

\* GET /health is answered
HealthCheck ==
  \E p \in Invocations :
    /\ startup = "serving"
    /\ invocations[p].pc = "idle"
    /\ SlotStep(p, [Idle EXCEPT !.pc = "done", !.health = <<health_check(module_globals)>>],
                module_globals)

\* the response is sent and the handler's frame is gone
Respond ==
  \E p \in Invocations :
    /\ invocations[p].pc = "done"
    /\ SlotStep(p, Idle, module_globals)

\* lines 43-46: the module body has bound the three globals to None
ServiceInit ==
  /\ startup = "import"
  /\ module_globals = GlobalsUnset
  /\ invocations = [p \in Invocations |-> Idle]
  /\ cert_data = PyNone
  /\ cert_json_bytes = <<>>
  /\ linked_backup_cert = PyNone
  /\ result = InitialResult(<<>>)
  /\ http_status = 0
  /\ op = "import"
  /\ edits = 0
  /\ request_data = PyNone

ServiceNext ==
  \/ LoadSchemas
  \/ LoadPublicKey
  \/ ReceiveBody
  \/ SelectSchemaStep
  \/ SchemaAndSignatureStep
  \/ HashAndChainStep
  \/ HealthCheck
  \/ Respond

ServiceSpec == ServiceInit /\ [][ServiceNext]_vars

\* the slot holds the response to a POST /verify
Answered(p) == invocations[p].pc = "done" /\ invocations[p].health = <<>>

\* C22: no request writes the schema or key globals, a step of one request
\* changes no other request's frame, and the response of every request,
\* whatever the other requests did meanwhile, is the response to the same
\* body handled alone.
C22_InvocationsIndependent ==
  /\ [](\A p \in Invocations :
          Answered(p) => invocations[p].response = verify_certificate(invocations[p].body))
  /\ [][ /\ startup = "serving" => module_globals' = module_globals
         /\ \E p \in Invocations :
              \A q \in Invocations \ {p} : invocations'[q] = invocations[q] ]_vars

\* a wipe request answered, with its linked certificate validated, while a
\* backup request is between its signature check and its hash check
C22_Witness ==
  \E p, q \in Invocations :
    /\ p # q
    /\ Answered(p)
    /\ invocations[p].response.status = 200
    /\ invocations[p].response.result.chain_valid = PyBool(TRUE)
    /\ invocations[q].pc = "signed"
    /\ invocations[q].body = CompactDumps(BackupCert)

\* the three globals are bound
AllLoaded ==
  /\ module_globals.BACKUP_SCHEMA # Unset
  /\ module_globals.WIPE_SCHEMA # Unset
  /\ module_globals.PUBLIC_KEY_BYTES # Unset

\* C24: the loads come before the service.  A request is in progress only
\* once the module is imported, and then the three globals are bound; after
\* a failed load nothing is ever served; a global that is bound is never
\* bound again; the loads run only during the import; GET /health reports
\* the schemas and the key as loaded.
C24_InitializationPrecedesService ==
  /\ [](\A p \in Invocations :
          invocations[p].pc # "idle" => (startup = "serving" /\ AllLoaded))
  /\ [](startup = "serving" => AllLoaded)
  /\ [](startup = "aborted" => ~AllLoaded)
  /\ [](\A p \in Invocations :
          invocations[p].health # <<>> =>
            /\ invocations[p].health[1].schemas_loaded
            /\ invocations[p].health[1].public_key_loaded)
  /\ [][ /\ startup = "aborted" => (startup' = "aborted" /\ invocations' = invocations)
         /\ module_globals.BACKUP_SCHEMA # Unset
              => module_globals'.BACKUP_SCHEMA = module_globals.BACKUP_SCHEMA
         /\ module_globals.WIPE_SCHEMA # Unset
              => module_globals'.WIPE_SCHEMA = module_globals.WIPE_SCHEMA
         /\ module_globals.PUBLIC_KEY_BYTES # Unset
              => module_globals'.PUBLIC_KEY_BYTES = module_globals.PUBLIC_KEY_BYTES
         /\ module_globals' # module_globals => startup \in {"import", "schemas_loaded"}
       ]_vars

\* the module is imported and a request is between the schema selection and
\* the schema check
C24_Witness ==
  /\ startup = "serving"
  /\ AllLoaded
  /\ \E p \in Invocations : invocations[p].pc = "selected"

====
